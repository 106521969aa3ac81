# DeskBridge in TLA+

DeskBridge shares one keyboard, mouse, clipboard and files between machines. It
is a Deskflow-derived C++ engine (`engine/src/src/lib`), a relay on port 443 (a
Go program in `cmd/deskbridge`, a Cloudflare worker in `relay`) and an Electron
application (`desktop`). This directory holds TLA+ modules translated from that
source, TLC configurations that check them on small instances, and proofs TLAPS
checks for every value of their constants.

Run `tlc -config X.cfg MCModule` for a configuration and `tlapm M_proofs.tla`
for the proofs; `PROJECT.json` lists the runs, which source lines each
definition stands for, the mutants that show each property can fail, and the
hazards of the code. What disagrees with comments of the code is in section 3.

## 1. Inventory

Paths without a prefix are under `engine/src/src/lib`.

| Component | State | Operations | Correct when |
|---|---|---|---|
| **Server: screen switching** `server/Server.cpp` | `m_clients`, `m_clientSet`, `m_oldClients` with close timers, `m_active`, `m_activeSaver`, `m_switchScreen`/`Dir`/wait timer/double tap, lock | adopt, disconnect, close, reload, motion at an edge, hotkeys, timers, saver on/off | the screens it points at are connected, exactly one is entered, no proxy is leaked or deleted twice, shutdown is answered |
| **Links between screens** `Server::getNeighbor`, `mapToNeighbor`, `server/Config.cpp` | the links of each side, as intervals of it | read links, walk to a connected neighbour, map a position across an edge | the walk ends; a position stays on the screen; there and back is where one was |
| **Clipboard sharing** `Server`, `ClientProxy1_0/1_6`, `PrimaryClient`, `Client`, `ServerProxy`, `StreamChunker::sendClipboard` | owner, sequence number, data, dirty flags; `own/sent/time` on clients; queued chunks | grab, change, transfer, enter, leave | the screen one is at shows the latest copy; stale grabs and data are dropped |
| **Event queue** `base/EventQueue.cpp`, `SimpleEventQueueBuffer.cpp` | saved events and their ids, pending events, buffer, ready flag | `addEvent` on any thread, the loop, `adoptBuffer` | every event is dispatched once, in order |
| **Timers** `base/EventQueue.cpp` | timer queue counted down by one clock | create, delete, check, dispatch | never early, never after deletion, never for ever late |
| **Socket multiplexer** `net/SocketMultiplexer.cpp`, `TCPSocket`, `TCPListenSocket`, `SecureSocket` | job list under a lock under a lock, poll entries, unblock pipe | add, replace, remove a job; poll and run | jobs run with their own poll result, never after close; nobody waits for ever |
| **Streams** `TCPSocket`, `SecureSocket`, `PacketStreamFilter`, `io/StreamBuffer` | input and output buffers, connected/readable/writable, packet size | read, write, flush, shut down, frame packets | every byte before a close is delivered; packets are not torn |
| **Handshake, server side** `server/ClientListener.cpp`, `ClientProxyUnknown.cpp`, `ClientProxy1_*.cpp` | waiting clients, half-known clients with a 30 s timer, heartbeat | accept, hello, version, info, options | a client is handed over once or dropped, none is leaked |
| **Client side** `client/Client.cpp`, `ServerProxy.cpp`, `deskflow/ClientApp.cpp` | stream, screen, proxy, connect timer, keep-alive alarm, suspended, server list | connect, hello, enter/leave, suspend/resume, restart | one connection at a time, always retried |
| **Server application** `deskflow/ServerApp.cpp` | uninitialised/initialising/starting/started, retry timer | start, reload, suspend, close | every failure is retried; shutdown ends |
| **File drag** `StreamChunker::sendFile`, `FileChunk`, `FileReceiver`, `Server::sendDragInfoToClient` | a thread and a flow token per file, the receiver's open file | start, chunk, end, hand over on a switch | a received file is complete; memory is bounded |
| **Keys** `KeyState`, `KeyMap`, `InputFilter` | pressed, synthetic and server keys, active modifiers | press, release, repeat, release all | no key stays down after a switch |
| **Relay worker** `relay/worker.mjs` | web sockets of a pair, tagged `a` or `b` | connect, forward, close | at most one socket a side; a pair ends together |
| **Relay program** `cmd/deskbridge/relay.go` | the phase of the connect loop, listeners, session | dial, wait for `ready`, handshake, serve, retry | two running devices meet again after any failure |
| **Receiver** `cmd/deskbridge/clipboard.go`, `main.go` | download directory, clipboard inbox | upload, post a clipboard | no file is overwritten or half visible; inbox bounded |
| **Desktop application** `desktop/main.cjs` | relay and engine processes, transfers, last clipboard, inbox | poll, send, mirror clipboard, restart engine | one engine runs; a clipboard is not echoed back |
| **Remote desktop** `cmd/deskbridge/screen.go`, `inject*.go`, `desktop/remote.cjs` | capture options, modifier flags | negotiate, stream frames, inject input | modifiers are released |
| Platform layers, `arch`, `mt`, GUI, IPC, daemon, launcher, packaging | | | not modelled, see section 7 |

**How they interact.** Everything in the engine meets at the event queue: the
multiplexer's service thread, the file threads and the signal thread add events,
one main thread dispatches them, so each handler of `Server`, `Client` and the
proxies is atomic with respect to the others. What is *not* atomic is the
distance between adding an event and dispatching it, between a write to a
stream and its parsing on the other machine, and between a timer coming due and
being looked at. Sockets call the multiplexer from any thread while holding
their own mutexes. The server and its clients talk in FIFO streams; between the
two machines these run through the relay: engine - local port - yamux stream -
inner TLS - web socket - worker - and back up on the other side.

**What is hard here**: stale pointers and stale data across two events (a timer
and a disconnection, a saver and a switch, a grab and a transfer); steps of two
threads (`addEvent` and the start of `loop`, `removeSocket` and `poll`); lock
order between sockets and the multiplexer; anything that must eventually
happen (closing, dispatching, being polled again, meeting again). `PROJECT.json`
lists 39 such hazards with their lines and the properties that watch them.

## 2. Modules

| Module | Models | Proofs |
|---|---|---|
| `ServerScreens` (`MCServerScreens`) | screen switching in `Server.cpp` | `ServerScreens_proofs` |
| `ScreenLinks` (`MCScreenLinks`) | links, the search for a neighbour, positions on edges | `Server_proofs` |
| `EventQueue` (`MCEventQueue`) | adding and dispatching events | `EventQueue_proofs` |
| `EventTimers` (`MCEventTimers`) | the timers of the same class | `EventQueue_proofs` |
| `SocketMultiplexer` (`MCSocketMultiplexer`) | the multiplexer and the locks of its callers | `Sockets_proofs` |
| `SocketStream` (`MCSocketStream`) | a connected socket, with TLS and without, and its packet filter | `Sockets_proofs` |
| `ClientListener`, `ClientSession`, `SessionWire`, `Session` (`MCSession`) | the handshake on the server, the client program, the connections, and the composition of the three | `Session_proofs` |
| `ServerLife` (`MCServerLife`) | the life of the server program | `Server_proofs` |
| `ClipboardSync` (`MCClipboardSync`) | one clipboard on the server and its clients | `ClipboardSync_proofs` |
| `FileDrag` (`MCFileDrag`) | files dragged between screens | `Files_proofs` |
| `FileClipboard` (`MCFileClipboard`) | copied files shared by the desktop applications | `Files_proofs` |
| `RelayPair` (`MCRelayPair`) | the relay worker and the connect loops of two devices | `RelayPair_proofs` |
| `Rendezvous` | what relay and devices promise together; abstract | |

How they fit: `Session` is the environment that connects and disconnects the
proxies of `ServerScreens`; `ScreenLinks` chooses the target of the switches
whose permission and delay are in `ServerScreens`; `ServerLife` begins and ends
servers; `SocketMultiplexer` runs the jobs whose bodies are in `SocketStream`;
`SessionWire` is what two such streams give their users; `EventQueue` and
`EventTimers` are why every module takes its handlers as atomic, its events in
order and its timers as eventually served.

In every module an action is one handler run, one locked section or one
message, named after the function it translates; a comment says what was left
out. Mutated copies of an operator (`\* Mutant: ...`) stand next to it and are
used only to show that a property can fail.

### ServerScreens
`Proxy` are heap objects; `heap` is their life (`unborn`, `alive`, `freed`), so
a leak, a double delete and a use after delete are visible. `clients`,
`clientSet`, `oldClients`, `active`, `saver` are the members of the same
meaning, `pending` groups `m_switchScreen`, `m_switchDir`, the wait timer, the
screen the saved coordinates belong to, and the double tap; `entered` and
`told` are what the screens were last told. `AdoptClient`, `ClientDisconnected`,
`ClientCloseTimeout`, `SetConfig`, `Disconnect`, `EdgeOfPrimary`,
`EdgeOfSecondary`, `SwitchWaitTimeout`, `JumpToScreen`, `ToggleScreen`,
`LockCursorToScreen`, `SaverActivated` and `SaverDeactivated` are the handlers.
Pixels are abstracted to the outcome of the edge test, links to "any connected
screen", and clipboards to nothing (they do not change which screen is active).
A configuration is a canonical name per name plus the switch options, so
reloads that rename, drop or alias screens are covered; an option it does not
give keeps its value, and the delay that belongs to it goes on (`Options`,
`StopDelays`). What a handler does with a deleted `m_active` is undefined and not
modelled: no such handler runs then (`Usable`).

### EventQueue and EventTimers
`addEvent` takes two steps: it reads the ready flag, then acts on what it read;
`loop` sets the flag, moves the pending events and dispatches. Ids of saved
events are integers as in `saveEvent`; a buffer may refuse an event, may be
replaced (`adoptBuffer`) and may deliver a Quit. The history variable `early`
marks events whose thread added something before the pending ones were moved.
`EventTimers` counts ticks: `clock` is `m_time`, `left` the remaining time as of
the last check, `age` the true age, which the code does not know. It is a module
of its own since it shares with `EventQueue` only the backlog, a number here.

### SocketMultiplexer
Threads step between the waits of the code (`lockLock`, `unblock`, `lockList`,
...); `list` and `lockLock` are the two nested locks, `unblocked` the byte in the
service thread's pipe, `pfds` and `cursor` the poll entries and the walk that
match jobs by position. `mutex[s]` is the one mutex of a socket that is held
while it calls the multiplexer. Sockets are plain, TLS or listening. Once `poll`
has reported anything the job of every socket runs: `stage` says whether it waits
for a connection, goes on with a TLS handshake, both without a report of their
own, or serves what was reported (`KeepJob`, `ReplaceJob`, `EndJob`).

### ClipboardSync
A clipboard's contents are the number of the copy they come from. Grabs are
written to a stream at once, contents pass through the sender's event queue
first, and both wait in the stream and in the receiver's queue: that is where
the order can go wrong. `habit` says what the users considered do: copy only
where they are or also in the background, act only when all is quiet (patient) or
at any time (hasty), and which copies exceed the size limit.

### ScreenLinks
`links` is the map of the configuration; `ReadLink` is `Config::connect` as the
reader calls it, with its test for overlapping parts of an edge, `EndOfConfig`
ends the reading. `GetLink`, `Step` and `GetNeighbor` are `getLink`, `getNeighbor`
and the walk over screens that are off; `Enter` and `Crossed` the loop of
`mapToNeighbor` over screens the motion flies past; `AvoidJumpZone` the last
correction. `OnMouseMovePrimary` and `OnMouseMoveSecondary` try the sides in the
order of the code. A search that is not over after as many steps as there are
screens (`MaxWalk`) repeats itself, so it never ends and the server hangs. The
flight of `Crossing` needs no bound: every screen takes a pixel or more of the way.
It may leave the cursor past the last screen of its direction; since a client
further on may connect later, `beyond` remembers what was ahead at that moment.
`ShapeAssumption` says that screens have a size (the server refuses a client that
has none) and that the primary is larger than its jump zones. Positions on
an edge are exact fractions where the code rounds to a `float`, so that rounding
is out of the model. `isSwitchOkay` is a choice, since `ServerScreens` models it, all
names are canonical, and a primary the cursor cannot leave is not considered.

### SocketStream
Two threads share a socket: `ServiceSocket` is one pass of `serviceConnected` under
the socket's mutex, with `PlainDoRead`, `SecureDoRead`, `PlainDoWrite`,
`SecureDoWrite` as the overridden functions; the event loop writes (`Write`,
then `MakeJob` and `SetJobAfter`, for `TCPSocket::write` releases the mutex before it
makes the job, and `addSocket` waits for the service thread),
flushes, and takes `inputReady` through the filter and the handler (`ReadMore`,
`ReadSocket`, `ReadDone`, `FilterShutdown`, `PassEvent`). Bytes are units, a packet two of them:
its length and its contents. `retry` is `m_writeStaticBuffer`, which a TLS write
that was not finished must repeat. While the peer is `stalled` it does not read, and the
kernel takes nothing; else it takes a repeated write. `decoded`
is what OpenSSL holds and `poll` does not see. The handlers above the filter are
those of a client or of a server, which differ in which events end the stream.

### Session
`SessionWire` is a TLS connection seen from outside: set up, two FIFOs, an end of
file, or cut without a sign. `ClientListener` is the server's side: sockets in
their TLS handshake, unknown clients with their 30 s timer, proxies until
`Server::adoptClient` or a refusal, and the closing ones with their 5 s timers; a
proxy and its stream are named by their connection, `crashed` is a second
deletion. `ClientSession` is the client program: `Client`, the part of
`ServerProxy` that greets and watches keep-alives, and `ClientApp` with its
restart timers and its list of servers and addresses. `Session` adds the network
and the circumstances of each timer: a timer that fires when what it waits for
can still come is a *fault*, as are cuts, sleep, and a reload that drops the
client; `MaxFaults` bounds them. Every message is handled in a step of its own;
keep-alives are abstracted to `ServerIsDead` and its counterpart on the server.
The addresses of the client's streams are used again, those of the server's
objects are not while events name them.

### ServerLife
`StartNode` to the end of `mainLoop()`, with `m_serverState`, listener, screen,
`closings` (the calls of `closeServer()`, each with its own event loop and timer,
the innermost last), the handlers that a closing installs and removes, and what
clients do meanwhile. A Quit ends the innermost loop, whatever it was meant for.
Suspend and resume are messages of the screen, dispatched in any of the loops.
Timers fire when the queue is empty. Servers are numbered and never reuse an
address. `retryHandler()` does not appear: nothing in the code calls it.

### FileDrag
A job is a file of a drag; each has a thread that queues chunks while it has
permits (`flow`, a `FileFlowToken`), `queue` holds them until `SendChunk` takes
them in the event loop and writes them to the object they were meant for, at an
address that a new proxy may have been given. `box` is the `FileReceiver`, `Reset`,
`OnStart`, `OnData`, `OnEnd`, `Move` and `Collect` its functions, with the two receivers
(`Client::fileChunkReceived`, `Server::onFileRecieveCompleted`) around it. The
history variable `crowded` holds the drags that are not alone: those under way
together with another one, with several files, or on a connection that is cut.
What is still to come over a connection that is cut may reach the receiver later,
through a proxy at the address of the old one, and without its announcement or its
start, which were lost: it is then written under the name that an earlier drag
left in the list, or into the file it left open. So a drag that has left something
there (`Left`) when a connection is lost is not alone either. The proof found
this: in the instance of `drag` one failure does not suffice for it.

### FileClipboard
An action of an application runs from one `await` of `desktop/main.cjs` to the
next: the poll (`HandleEvent`, `EventCopied`, `ReadClipboard`, `Compare`, the
uploads and posts it waits for), the window's copy from the history, the change
of the setting and the health check. The receiver's handlers go file operation by
file operation: `LinkUpload` is one try of `saveUniqueUpload`, `CheckInbox` and
`PutEvent` the halves of the `/clipboard` handler. A request that has been given
up goes on at the receiver; one whose answer is cut after its headers settles
nothing, and the poll hangs (`Fails`). A clipboard write may be rejected after
`lastClipboard` was set for it (`WriteRejected`). Histories: `got`, `missed` (the copies given up for
a reason the code names), `raced` (the window copied, or the setting changed,
in the middle of a poll) and `unwritten` (the machines whose last write was rejected).

### RelayPair and Rendezvous
A connection is one dial of one side; `socket` is the worker's end (`open`,
`closing` once the worker has closed it, `unreported` once the platform no longer
lists it but has not called `webSocketClose`/`webSocketError`). `phase`, `conn`
and `partner` are the connect loop of each device: dialing, waiting for `ready`,
in the inner handshake (`greeting`), serving. `up` and `down` are the messages
under way. The worker's handlers are `Fetch...`, `WebSocketMessage`,
`WebSocketClose`; `runRelay` is `Dial`, `Read`, `TimesOut`, `Fails`, and `HangUp`
is every return of it. `FetchThrows` is the case in which `send` throws on a
peer that is closing, after the new socket was accepted. TLS is modelled by
what it gives: a handshake message names the connections it was made for, and
one made for others fails. `Break` cuts a connection without a sign. The names
of connections are used again once nothing mentions them.

`Rendezvous` says what matters of all this: b begins sessions and offers them, a
joins offered ones, each once. `MeetsAsSpecified` is that specification under
the mapping `SessionOf`, `Offered` (the last handshake messages under way). TLC
checks it on the instances below; `RelayPair_proofs!ImplementsRendezvous` proves it
for every set of connections. `SessionEndsByFaults` proves, for those too, that in a
prompt network a session ends only by a fault.

## 3. Runs

| Run | Instance | Distinct states | Shows |
|---|---|---|---|
| `screens` | 3 proxies (two of one name) on 4 names, 3 configurations (one without a screen and without delays, one without the primary), one direction per axis | 175 786 | `RegistriesAgree`: both registries hold the same proxies, each under the name it has, and the last departure is reported; `CursorPlaced`: every step but two of the code (`LeavesOnDetour`, `JumpsToGone`) keeps the active and the saver's screen connected and exactly the active one entered; eventually `ClosedIsFreed`, `DisconnectReported` |
| `links` | 3 screens of different sizes, 9 links a configuration picks from, motions of up to 4 pixels | 30 296 | `LinksMap`: parts of an edge never overlap and each position finds the one link it lies in; there and back is where one was. `CursorKept`: the cursor is on a connected screen and does not bounce back. `HangsInRings`: a search that never ends met a ring of screens that are off |
| `queue` | 2 threads, 3 events each, immediate events and a Quit | 40 003 | `IdsMatch`, `HandledOnce` (each event in one place, late ones in order); eventually `LateEventReaches` |
| `timers` | 2 timers of 1 or 2 ticks | 386 360 | `NeverEarly`, `TimersObey` (silent once deleted, a one-shot fires once); eventually `DueIsServed` |
| `mux` | a caller, a TLS and a listening socket; `accept` may fail, `poll` may report errors, jobs connect and shake hands unreported | 88 935 | `LockersAgree`, `EntriesMatchJobs`, `ClosedNotServed`; `ThreadsGoOn`: but for the two deadlocks `Stuck` names, every call returns and the service thread goes round |
| `stream` | 2 packets from the peer, 1 to it, an input buffer of 1 unit, TLS records of 3; server and client handlers, TLS or not; a peer that stops reading | 223 592 | `InputHandled`: complete packets are handled, and all of them before an orderly end without TLS; `SentInOrder`; eventually `Delivered` and `NothingHangs` (`flush()` returns, the end is noticed), as long as the peer reads in the end and the TLS session lives |
| `session` | 2 connections, 2 servers in the list (one not listening), a screen that may be unavailable, 1 fault | 24 009 | `NeverStranded`: a client without a connection will dial; `Watched`: one with a connection will notice its end; `NoneLost`: a proxy has one owner, dials do not multiply; eventually `Reconnects` |
| `life` | 2 clients, 2 starts, 2 suspends or resumes, 1 request | 34 530 | `NothingDangles`: no client outlives its server, nothing is left at the end; `ClosingEnds`: whose server is being closed is deleted in the end, if the queue empties again and again |
| `clip` | 2 clients, 2 copies, 3 switches, 4 kinds of user | 370 004 | `SeqOrdersVisits`, `OwnerSends`, `CleanIsCurrent`, `PatientUserServed` (for one who waits between actions the owner is agreed on and the latest copy is where one is) |
| `drag` | 1 peer, 3 drags of 1 file of 0 or 1 piece, window 1, 1 fault; the receiver a client or the server | 332 612 | `DragsApart`: drags that are alone are written once, whole (unless moving the file into place failed), under their own name, and shown alone, whatever was left behind; eventually `ThreadsEnd`, `Lands` |
| `files` | 2 computers, 2 files, 2 user actions, 1 failure, rejected write or edit, an inbox of 1 | 95 724 | `RightFiles`: what an event names is what was uploaded for it; `NoEcho`: what was received is sent back only after the window interfered or a write was rejected; eventually `CopiesArrive` (a poll ends unless its answer was cut, a copy arrives or is given up) |
| `relay` | 2 connections a side; a prompt network with 3 faults and a late one with 1 fault and any number of hasty timeouts | 186 178 | `MeetsAsSpecified` (refinement of `Rendezvous`), `SessionLasts`; eventually `MeetAgain` |

A property of several parts names them in its definition; each part can be
checked by itself.

**Why the bounds are enough.** Screens: three proxies give a busy name, a third
screen to jump to and a client on its way out at once; a corner touches one
horizontal and one vertical direction, and a second of either kind would only
rename the first. Links: three screens allow one to fly over, a way around and a
ring without the primary; a position is at the edge, beside it or beyond. Queue:
with three events per thread one can be pending, one in the buffer and one being
added. Timers: a clock of three ticks lets a one-tick timer be three durations
late. Multiplexer: one socket is being removed while another is polled;
`MuxTwo.cfg` (two callers, safety only, 2 239 349 states) and the theorems for any
number of callers add nothing new. Stream: the second packet arrives while the
first is read, a record is larger than what the buffer takes, and a write meets
one that must be repeated. Session: an old connection is wound up while a new one
is made; the safety properties also hold with two faults (below). Life: the
second server is closed while the first still is; two clients make one leave
before the closing and one during it. Two clients cannot keep the queue busy, so
`QueueDrains` always holds there; three can, and with one start and one suspend a
third client keeps a closing waiting when it is dropped from `ClosingEnds`. Clipboard: two copies and three switches
allow two owners and a return to a screen left before. Drag: the first of three
drags fails, the second follows on what it left, the third on both; one permit
makes every chunk wait for the one before, and more of them only let a thread run
ahead. Files: a second copy is made while the first is uploaded, fails, or waits
in a full inbox (`MaxInbox` stands for 100). A file that is edited and copied
again is not sent, since the signature of a clipboard is its paths; `CopiesArrive`
excepts it. Relay: with two connections a side an
old one can linger while a new one is made; three connections (52 014 states,
prompt, 2 faults) change nothing.

**Exceptions inside properties.** Where the code breaks a promise, the property
excepts that step or state by a name of its own, and a configuration of the next
section shows it: `LeavesOnDetour` and `JumpsToGone` in `CursorPlaced`, `Stuck` in
`ThreadsGoOn`, `overfull` and `Hung` in `Delivered`, `raced` and `unwritten` in
`NoEcho`, `"hung"` in `CopiesArrive`. The environment is restricted nowhere else
but in `PeerReads` (the peer of a stream reads in the end), in `QueueDrains` and in
the prompt networks of `RelayPair` (section 4).

### Disagreements with comments of the code

These are shown beside the listed runs. Where a configuration is kept it is
named; otherwise take the named one, replace its properties by the one given and
change what the third column says.

| Property violated | Configuration | Change | Why, and what the code says |
|---|---|---|---|
| `ActiveConnected` | `ScreensSaverDangles.cfg` | | `forceLeaveClient` compares the leaving client with `m_activeSaver` only, though the cursor has moved since: `m_active` dangles |
| `TargetConnected` | `ScreensTargetDangles.cfg` | | the pending switch is stopped only when the *active* screen leaves |
| `RegistryAgrees` | `ScreensAliasMoves.cfg` | | a reload moves an alias of a connected client, which is then removed under another name |
| `AimIsTarget` | `ScreensTargetDangles.cfg` | | the remembered target is reused for another neighbour on the same side |
| `SaverTold` | `ScreensSaverDangles.cfg` | | a new client is not told of a running saver after the remembered screen left |
| `SearchEnds` | `Links.cfg` | | screens that are off and linked in a ring are walked for ever; `Server.cpp:694` says of the search "if the destination is the source then we can make no more progress in this direction" |
| `NeverOutside` | `Links.cfg` | | a motion longer than the last screen of its direction leaves the cursor past it |
| `EventReaches` | `QueueLost.cfg` | | the ready flag is read without its mutex: an event is put in `m_pending` after it was emptied. `IEventQueue.h:77`: "Adds \p event to the end of the queue" |
| `InOrder` | `QueueLost.cfg` | | events overtake the pending ones |
| `OneShotCount` | `Timers.cfg` | | a late one-shot reports more than one expiry |
| `DueIsServed` | `Timers.cfg` | `Endless = TRUE` | timers wait for an empty buffer |
| deadlock (`ServiceLoops`) | `MuxPlain.cfg` | `Kind <- MixedKinds` | `freeSSL` waits for the job list holding the mutex the running job needs. `SecureSocket.cpp:423`: "Never block here; this thread services every connected socket." |
| deadlock (`ServiceLoops`) | `MuxPlain.cfg` | `ListenErrors = TRUE` | `serviceListening` calls `close()` on an error, which waits for the list its own thread holds |
| `KeepsListening` | `MuxPlain.cfg` | `AcceptFails = TRUE` | after a failed `accept` the listening job is not set again |
| `AllHandledSecure` | `Stream.cfg` | | with TLS, `doRead` breaks at the end of the connection before it announces what it has buffered: the last packets are lost |
| `DeliveredAlways` | `Stream.cfg` | | OpenSSL keeps what the full buffer had no room for, and `poll` does not see it until more arrives |
| `FlushReturns` | `Stream.cfg` | | `ClientProxy::close` flushes a socket whose TLS session has failed and has no job any more, or whose peer does not read: the event loop waits for ever. `ClientProxy.cpp:33`: "force the close to be sent before we return" |
| `NoCrash` | `SessionDeletedTwice.cfg` | | a client that ends while it waits to be adopted: `ClientListener::handleClientDisconnected` deletes the proxy, which owns its stream, and then the stream. `ClientListener.cpp:219`: "pull out the socket before deleting the client so we know which socket we no longer need" |
| `NeverStranded` | `SessionDeletedTwice.cfg` | `ScreenFaults <- Broken`, `MaxFaults = 2` | a restart whose screen cannot be opened for good is ignored. `ClientApp.cpp:327` counts on a timer that is not there |
| `EndsWhenAsked` | `LifeStrayQuit.cfg` | | a closing posts a Quit for each `ServerDisconnected`; a second one ends the main loop, so the program exits on suspend. `EventTypes.h:19`: "Exit has been requested." |
| `ServesAwake` | `LifeStrayQuit.cfg` | | a start that fails on resume is not retried, which `ServerApp.cpp:546` promises |
| `DeletedOnce` | `LifeStrayQuit.cfg` | `MaxPower = 3` | a suspend inside the loop of a closing closes the same server again |
| `ServesAgain` | `LifeStrayQuit.cfg` | `SPECIFICATION FairSpec` | `m_suspended` is set after the loop: a resume heard in it is lost |
| `Ends` | `LifeStrayQuit.cfg` | `SPECIFICATION FairSpec` | a Quit from outside ends the closing it meets, not the program |
| `NestedClosingsEnd` | `LifeStrayQuit.cfg` | `SPECIFICATION FairSpec` | the Quit of an outer closing ends the inner one, and the outer one waits for a handler the inner has removed |
| `OwnerSends` | `ClipOldOwner.cfg` | | sequence numbers of one visit are equal, so late data of a former owner is accepted. `Server.cpp:1541`: "should be the expected client" |
| `OwnerAgreed` | `ClipOldOwner.cfg` | `Habits <- JustQuick` | a transfer crosses the client's own grab |
| `FilesInOrder` | `DragTwoFiles.cfg` | | two threads send two files, whose chunks interleave. `FileReceiver.h:32`: "Names + expected sizes announced by the drag-info message, in order." |
| `FilesInOrder` | `DragTwoFiles.cfg` | `Dragger = {p1, p2}`, `MaxDrags = 2`, `MaxFiles = 1` | the same with one file from each of two clients |
| `AbortedWhenGone` | `DragTwoFiles.cfg` | `MaxFiles = 1`, `MaxFailures = 1` | a partial file outlives its connection. `FileReceiver.h:39`: "Abort any partially-written file (e.g. on disconnect)." |
| `ShownIsThere` | `Drag.cfg` | | that neither `rename` nor `copy_file` succeeds is ignored: the path of a file that is not there is dragged on |
| `NeverEchoed` | `Files.cfg` | | the window copies a received file while a poll has read the clipboard, and it is sent back |
| `EchoedByWindow` | `Files.cfg` | `MaxActs = 3` | `lastClipboard` is set before the clipboard is written; when the write is rejected it names a path that is not there, and the received file that still is there is sent back |
| `PollReturns` | `Files.cfg` | | `request` and `sendFile` listen for the end of the answer and for errors of the request only: an answer cut after its headers settles neither, and `clipboardBusy` stays set |
| `InOrder` | `Files.cfg` | `MaxFaults = 0`, `MaxInbox = 2` | events are handled in the order of their random names: of two copies the older may stay |

Three more pass: `MuxPlain.cfg` as it is (a plain and a listening socket, no
errors: every call returns, the service goes round, listening goes on, and there
is no deadlock), `Relay.cfg` with `Networks <- Hasty`, `SPECIFICATION Spec` and
`MeetsAsSpecified` only (two faults in a late network), and `Session.cfg` with `MaxFaults = 2`,
`SPECIFICATION Spec` and its invariants.

## 4. Fairness

* `ServerScreens`: weak fairness of the close timers only. The queue serves due
  timers (`DueIsServed`), as long as events do not arrive without end.
  No client is assumed to hang up.
* `ScreenLinks`: safety only; a search that does not end is a state, `hung`.
* `EventQueue`: weak fairness of the loop's steps and of the second step of
  `addEvent`: threads run. Nothing forces anyone to add events.
* `EventTimers`: weak fairness of the loop; posting is finite in `timers`.
* `SocketMultiplexer`: weak fairness of each thread, except that `poll` need not
  return unless the unblock pipe was written; strong fairness of taking the
  outer lock, since waiters are woken at each release and look again every 0.1 s
  (`ThreadsSpec`). `FairSpec`, for `KeepsListening`, adds strong fairness of
  accepting a connection that was reported, since it stays queued.
* `SocketStream`: weak fairness of both threads; of writing by the handler only
  where the stream cannot be written, which is how a keep-alive that meets a dead
  connection notices it. The peer need not send or close; `Delivered` and
  `FlushEnds` assume that it reads in the end (`PeerReads`).
* `Session`: weak fairness of both event loops, of the network (a handshake ends,
  a message arrives or its connection is cut) and of waking up after a sleep;
  strong fairness of timers that are due, since they fire only when a queue is
  empty. Faults need not happen, and what a fault allows is never fair.
* `ServerLife`: weak fairness of dispatching; strong fairness of the timers, for
  the same reason. Clients need not answer. `ClosingEnds` assumes `QueueDrains`: the
  code looks at its timers only when the queue is empty, and clients that keep it
  busy can hold up the three seconds of a closing.
* `FileDrag`: weak fairness of the event loops and of a thread that has a permit.
* `FileClipboard`: weak fairness of the poll, the window and the receiver; not of
  the health check, whose answer may be cut as well. Users, failures, and "a minute passes" are not fair.
* `RelayPair`: weak fairness of the worker's handlers for each connection, of
  redialing, reading and due timeouts. `MeetAgain` and `SessionLasts` are claimed
  for a *prompt* network (the proof of `SessionLasts` shows that it needs less,
  section 5): what is under way about abandoned connections arrives,
  and its end is reported, before either device dials again. The code only
  waits five seconds, which usually is enough and is not ensured. Without the
  assumption two devices that redial in lockstep can refuse each other for
  ever: each is accepted while the other's socket is closing, its `ready` throws,
  and the end of the accepted socket closes the other's. Faults and early
  timeouts need not happen.
* `ClipboardSync`: safety only; "settled" states take the place of liveness.

`CHECK_DEADLOCK FALSE` is set where the system really may stop: after Quit, when
all bounds are used up, when nobody does anything any more, and in the
multiplexer instance that allows its two deadlocks. `screens` and `MuxPlain.cfg`
check for deadlock.

## 5. Proofs

Each `_proofs` module proves its theorems for all values of the constants, from
the named assumption of the module alone (and, where a theorem says so, from
one about the constants).

| Theorem | Inductive invariant and why it is needed |
|---|---|
| `ServerScreens_proofs!TypeCorrect` | `Typed` = `TypeOK` and "a running wait timer has a target": `SwitchWaitTimeout` passes the target to `switchScreen` |
| `RegistryCorrect`: `RegistriesAgree` | `Registered`: adds that the configuration is known and that both registries agree, for `removeClient` erases by the *current* name; from it, that the last one out is known to be last. Needs `StableNames` (no reload changes the canonical name of a connected client), the very thing `ScreensAliasMoves.cfg` breaks |
| `CursorCorrect`: `CursorPlaced` | `Placed` (the active screen connected and alone entered, the saver's screen connected) holds at first, and from `Registered` and `Placed` every step but `LeavesOnDetour` and `JumpsToGone` leads to `Placed`: one step per way of the cursor, by what `RemoveClients` and `ForceLeave` leave of who departs. Nothing is assumed of the environment; needs `StableNames`, as the registries do |
| `EventQueue_proofs!IdsCorrect` | `IdsInv`: ids in use and free ids together are exactly `0..n-1` (`IdsPacked`), which is why "number of saved events" is a fresh id |
| `EventsHandledOnce`: `HandledOnce` | `OnceInv`: every event added is in one of five places (in a hand, in `m_pending`, in the table, dispatched, dropped) and the five are disjoint (`Apart`); each thread holds only the event it added last (`HeldIsLast`); once the flag is up for good nothing takes the detour over `m_pending` (`NoDetour`), and then hand, buffer and the id taken stand in the order of adding (`Lined`) |
| `TimersNeverEarly`: `NeverEarly` | `TimersInv`: what the clock says is left of a timer is its duration less its true age (`InStep`) |
| `TimersAreObeyed`: `TimersObey` | `QueuedKnown`: only timers that are not deleted are counted down |
| `Sockets_proofs!ListExclusive`: `LockersAgree` | `LocksInv`: a thread that waits for the list holds the outer lock, one that has it holds the list |
| `EntriesAreTheJobs`: `EntriesMatchJobs`; `TypeCorrect` | `EntriesInv` adds that the entries collected last are those of the jobs as they are unless `m_update` is set (`UpdateTells`), and that no socket has two nodes (`Distinct`, for a job that ends must not take the entry of one ahead with it). What the recursive `LiveFrom` computes is proved by induction from the end of the list, over sets of places (`Downwards`), since a set of numbers has a least member (`LeastNat`) |
| `UnitsSentInOrder`: `SentInOrder` | `StreamOut`: the units are numbered as they are written, and there are `x`, `y`, `z` such that what the kernel has taken is `1..x`, what is buffered are the `y` after them, and what a TLS write must repeat are the first `z` of those, as long as the stream can be written; a stream that was flushed has `y = 0`. Each step of the service thread is taken apart into the functions it goes through (`WellKept` holds of every state between) |
| `EveryByteIsHandled`: `InputHandled`; `StreamTypeCorrect` (the input buffer has no bound of its own: it holds at most what was taken and decoded) | `InputInv`: bytes in the buffer have an `inputReady` that is queued or being served (`InputAnnounced`); between reads the filter holds at most a length (`FilterRead`). For the orderly end without TLS, every unit out of the kernel is in a packet handled, in the filter or in the buffer (`InputAccounted`); no `inputReady` comes behind the `inputShutdown` in the queue, and with that one everything has been taken (`EndIsLast`): where it is served nothing is left but half a packet |
| `Session_proofs!TypeCorrect`, `AlwaysWatched` | `TypeOK` with `Watch`: a client without a connection has no connect timer and no alarm (`Attached`), and one with a connection is watched; either alone is not inductive, since the alarm posts an event about the connection there is |
| `AlwaysTries`: `NeverStranded` | `Inv` = the above with `NeverStranded`. Needs that opening the screen never fails for good, which is the disagreement above |
| `NoneIsLost`: `NoneLost` | For the server `OwnersInv`: until a proxy is deleted twice, who is being connected lives nowhere and has no notices, and an accepted socket's notice is its only one (`Arriving`); an unknown client decides once, and is without a proxy exactly while it owns the stream or has failed (`Deciding`); the proxies without an unknown client are those waiting, served and closing, each once (`OneOwner`). For the client `Spends`: restart timers, the connection, the events that schedule a restart or announce a sleep, the start, and waking up connected together stay below one more than the faults (`Spent`), for each handler turns one of them into one other |
| `Server_proofs!TypeCorrect`, `NothingDanglesEver`: `NothingDangles` | `LifeInv`: until a server is deleted twice, each closing is of the server there is or of one deleted while it waited (`AllOrFreed`), so ending the innermost can only end the server there is; the program's exit is only the outermost closing (`ExitIsOutermost`), so none is left when it ends; a watched server is being closed (`WatchedIsClosing`); listener, state and proxies go with the server (`Serves`). A second deletion does happen (`DeletedOnce`, section 4); nothing is claimed after it |
| `LinksMapped`: `LinksMap` | The first part of `LinksInv`: the links come from the configuration and those of a side are apart (`Apart`). `Cell::overlaps` looks at two links only; those start last before the new one and first after it, and all others are behind them (`NoneOverlaps`). There and back is arithmetic: from the middle of a pixel to the one it is on and back (`MiddleReturns`), through a fraction that a whole link only expands (`DivCancels`) |
| `CursorStaysInside`: `CursorKept` | `LinksInv`, with types and "while the configuration is read nothing has happened" (`Still`). A link leads from a place on an edge to a place on an edge (`TransformedOnEdge`), so what is found is a pixel (`PixelOnEdge`); a flight comes to a screen with some of the way left, and that gets shorter (`Flown`, `RunsOut`), so it ends on the screen or where nothing is ahead (`FlightEnds`); the correction at the primary keeps to its pixels and leaves the zone (`JumpZoneAvoided`) |
| `OnlyRingsHang`: `HangsInRings` | The same invariant: a search not over after `MaxWalk` screens met one of them twice (pigeonhole), and those between the two are off and linked one to the next (`EndlessIsRing`). The recursive functions `Walk` and `Crossing` are defined by induction over sets of numbers (`Upwards`) |
| `Files_proofs!RightFilesAlways` | `Inv`: every path in an event, a post or a poll's list names a file that exists with the content uploaded (`Right`), and two uploads never get one name |
| `NoEchoAlways`: `NoEcho` | `Served` and `EchoInv`: unless the window interfered or the machine's last write was rejected, what the poll put on a clipboard is what `lastClipboard` names whenever the clipboard is compared; only the comparison begins an upload (`OnlyCompare`) |
| `DragsStayApart`: `DragsApart` | `DragInv`, about each job that is alone. While something of it is under way nothing else is (`Ongoing`): its chunks from one number on are in the queue, and an open receiver has those before (`Progress`). Later its name can only be left in the list, with nothing under way, or on an open file, with whatever is under way still to be started, over connections that hold (`Remains`, `Starting`). On both counts the next chunk sent ends what is left, and a chunk of its own in the open file means its own name (`Mixed`) |
| `ClipboardSync_proofs!TypeCorrect`, `VisitsOrdered` | `SeqInv`: every number in a queue or a stream is below the next visit's (`Bounded`), and what is under way to a client the cursor is not on is below the present one's (`LeftAreOlder`) |
| `OwnerSendsData`: `OwnerSends` | `OwnerInv`: the screen of each visit is a function `v` of its number that exists but that no variable holds, and every number in a queue, a stream or a client belongs to the screen `v` gives (`ServerInv`, `NamedClient`); contents follow a grab with their number or a newer one (`EventInv`, `OrderClient`); the cursor enters and leaves a client in turn (`CursorClient`). For users without `background`, where the theorem says so: a program that copies on a screen the cursor is not on breaks the property (section 4) |
| `CleanScreensCurrent`: `CleanIsCurrent` | `CleanInv` adds `Clean`: of all the transfers under way to a clean screen the last one, in the server's queue, else in the stream, else what the client has, is the server's data (`LastSent`, `LastWritten`) |
| `PatientUsersServed`: `PatientUserServed` | `PatientInv` adds, for a user who waits, that either the latest copy is served (`Served`: the server has it, or its owner keeps it or is sending it, and nothing else is on its way), or its grab is alone on its way to the server (`Copying`) |
| `RelayPair_proofs!TypeCorrect` | `TypeOK` itself, in which a handshake message names connections of the right sides: that types the partner a device takes from it |
| `ImplementsRendezvous`: `MeetsAsSpecified` | `MeetInv`: a `finished` message is in one place and no two name one connection of b (`EachOnce`), none names the connection with which b does not yet serve, nor does a serve with it (`NotYet`), and a broken connection brings nothing (`CutSilent`). Every step then is b beginning, a joining, or devices leaving and offers getting lost |
| `SessionEndsByFaults`: `SessionLasts` | `PromptInv`, about prompt networks: the relay lists one socket of a side (`OneListed`); of a connection it does not list only the request is under way, of one it lists only frames and the close of a device that has left (`Sent`); a refusal comes alone, to a device that dials (`Told`). A connection that is alive (used, open, working, not refused) has an open peer or none; without one it has only been accepted (`Waiting`), and two that are alive are at the same point of the handshake with at most one frame under way (`Paired`, five stages). At the last stage nothing is under way and nothing else is listed (`NothingUnderWay`), so the worker can only refuse others. The redialing after "all that was under way" is not used: the promptness this property needs is that the platform reports an end before anything else happens and that no timeout comes early |

Of the properties the runs check `ClosedNotServed` is only model-checked, and so are
the thirteen liveness properties
(`ClosedIsFreed`, `DisconnectReported`, `LateEventReaches`, `DueIsServed`,
`ThreadsGoOn`, `MeetAgain`, `Reconnects`, `ClosingEnds`, `ThreadsEnd`, `Lands`,
`Delivered`, `NothingHangs`, `CopiesArrive`): liveness under fairness and `ENABLED`
are beyond the prover and shown by TLC on the small instances only. The others are
theorems.

## 6. Plan

Done, in this order, the most important behaviour first: `ServerScreens`,
`EventQueue`, `EventTimers`, `SocketMultiplexer`, `ClipboardSync`, `RelayPair`
with `Rendezvous`, `Session`, `ServerLife`, `ScreenLinks`, `FileDrag`,
`SocketStream`, `FileClipboard`. Left, in the order of what they would add:

1. `InputEngine`: the restart of the engine by `desktop/main.cjs` across awaits and
   exit events, with the process control of the GUI.
2. `KeyState` and `InputFilter`: which keys are down on the screen that was left;
   pure algorithms with a reference definition.
3. The protocol's encoding, with its sizes and limits.

## 7. Not modelled

* `Server` and its proxies: options, keys and mouse as messages, beyond what a
  handshake and a heartbeat send. A heartbeat option of 0.
* `ServerApp::resetServer` and `forceReconnect`; the client program's Quit;
  clients of different names in `Session` (they do not meet but in the registries
  of `ServerScreens`); plain (non-TLS) connections in `Session`.
* `Config` but for its links and canonical names; reading and writing the file.
* In `FileClipboard` users do not delete or rename the files received, a list has one
  file, and the window copies from its history only files that were received.
* The contents of a relay session (local ports, yamux streams, the services on
  them), authorization and rooms of the worker, frames over its size limit.
* Handler registration (`addHandler`, `removeHandler`, `dispatchEvent`), the
  platform event buffers and `waitForReady` of the event queue; timers created
  on other threads.
* The multiplexer's destructor and cancellation.
* The chunks of a clipboard transfer, a failing transfer, and clients that come
  and go during clipboard exchange.
* `KeyState`, `KeyMap`, `InputFilter`: planned (section 6).
* Platform layers (`platform`, `deskflow/unix`, `deskflow/win32`), `arch`, `mt`:
  calls of the operating system. Their use by the modelled code is part of the
  models (locks, condition variables, poll).
* The Deskflow GUI, its IPC and daemon, which the packaged application does not
  ship; launcher, packaging, settings, logging, string and protocol formatting:
  no concurrent or long-running behaviour.
