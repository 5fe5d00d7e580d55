# A verification project for MSc_RtspStreaming_Cpp

The repository is a small video system: an enterprise's camera server records
H.264 video, streams it live over RTSP multicast, offers the recorded files
"on demand" over RTSP unicast, and tells registered users which streams exist;
a Qt client signs in, lists the streams and plays them. This directory models
the parts of it where threads, sockets and callbacks meet, checks the models
with TLC and proves the main results with TLAPS.

In what follows `net/` and `xop/` are the directories of
`src/RtspServer/PHZ76_RtspServer/src/`, the RTSP library the server is built on.

## 1. Inventory

### The streaming server (library `net/` and `xop/`)

| component | state | operations | called by |
|---|---|---|---|
| `TcpServer`, `Acceptor` | `connections_` by descriptor, `mutex_`, `is_started_` | accept callback, `AddConnection`, `RemoveConnection`, `Start`, `Stop` | event loop; main thread (`Start`, `Stop`) |
| `TcpConnection` | `is_closed_`, `mutex_`, read and write buffer, channel, three callbacks | `Send`, `Disconnect`, `HandleRead`, `HandleWrite`, `HandleClose`, `HandleError`, `Close` | event loop; any thread that sends; main thread (`Disconnect`) |
| `BufferWriter` | queue of at most 500 packets with a write index | `Append`, `Send` | `TcpConnection`, under its mutex |
| `Channel`, pollers | events asked for, table of channels | `Enable*`, `UpdateChannel`, `RemoveChannel`, `HandleEvent` | as above |
| `TaskScheduler`, `RingBuffer`, `Pipe`, `EventLoop` | ring of trigger events, wake-up pipe, `is_shutdown_` | `AddTriggerEvent`, `HandleTriggerEvent`, `Start`, `Stop` | everybody |
| `TimerQueue` | timers, events ordered by timeout | `AddTimer`, `RemoveTimer`, `HandleTimerEvent` | event loop, others |
| `RtspConnection` | `session_id_`, `rtp_conn_`, RTCP channels, request under way | one handler per RTSP command, `OnRead`, `OnClose` | event loop, as callbacks of `TcpConnection` |
| `RtpConnection` | transport, per channel `is_setup`/`is_play`, `is_closed_`, weak pointer to its `RtspConnection` | `SetupRtpOver*`, `Play`, `Teardown`, `SendRtpPacket`, `GetId` | event loop; the threads that stream |
| `MediaSession` | `clients_` by descriptor, `map_mutex_`, sources, callbacks | `AddClient`, `RemoveClient`, `HandleFrame`, `StartMulticast` | `RtspConnection`, `RtspServer` |
| `RtspServer` | sessions by id and by suffix, `mutex_` | `AddSession`, `RemoveSession`, `LookMediaSession`, `PushFrame` | emitter, `RtspConnection` |
| `H264Source` and other sources | one packet buffer per source | `HandleFrame` (packetizer) | the threads that stream |
| `RtspRequest`, `RtspResponse`, `BufferReader` | parser state, read buffer | `ParseRequest`, `Build*Res`, ... | `RtspConnection` |
| `DigestAuthentication`, `MulticastAddr`, `MemoryManager`, `RtspPusher` | nonce; addresses in use; free blocks; a session | | |

### The enterprise server (`src/RtspServer/EnterpriseEmitter`, `rtsp_server_main.cc`)

| component | state | operations |
|---|---|---|
| `OnDemandSession` | `mHandler` (one record and one thread per client), `mReadingVideo`, two mutexes | connected and disconnected callback, `onDemandLoop`, `setReadingVideo`, `getClientsReadingVideo` |
| `EnterpriseEmitter` | file being recorded, which of the saved videos is next, running flag | `start`, `stop`, `liveStreamingLoop`, `timeStreamElapseLoop` |

### The network manager (`src/NetworkManagerAPI`) and the client (`src/RtspClient`)

| component | state | operations |
|---|---|---|
| `NetworkManager`, `SqlServer`, `JunkCleaner` | list of client handlers, list of streams and its message, the users' table | accept loop, `updateLiveStream`, `updateOnDemandStream`, `sendStreamMessage`, the cleaner's sweep |
| `NetworkClientHandler` | status of one client, its socket and thread | `threadEntry`, `parseMessage`: register, login, stream list |
| `NetworkUser` | status, list of streams | `registerUser`, `loginUser`, `receiveMessage` |
| `RtspClient` | window state, RTSP session, receiver thread, decoder | start, stop, the RTSP commands; `StreamingWorker::run` |
| `H264StreamingAPI`, encryptors, dialogs | wrappers of FFmpeg, pure conversions, forms | |

### How they interact, and what is hard about it

The event loop's thread accepts, reads, parses, answers and closes. DESCRIBE of
a saved video calls `MediaSession::AddClient`, whose connected callback starts a
thread that reads the file and sends it through `H264Source`, `RtpConnection`
and, over TCP, `TcpConnection::Send`. Whoever notices that a connection is gone
(the loop, or the worker whose `::send` fails) runs `Close`, which under the
connection's mutex calls `RtspConnection::OnClose`, `MediaSession::RemoveClient`
and the disconnected callback, which joins the worker, and finally queues
`RemoveConnection(fd)` for the loop. `TcpServer::Stop`, on the main thread,
queues a `Close` for every connection and polls until the registry is empty.

So: three kinds of threads, four levels of locks taken in both directions,
callbacks that block on other threads, state keyed by descriptor numbers that
the system hands out again, and deferred work that names a connection only by
that number. `PROJECT.json` lists the hazards at their lines. What makes each
component correct:

* registry: an open connection stays registered, only closed ones are removed,
  a descriptor has one owner, closing completes, `Stop` returns;
* on-demand session: one handler and one thread for each client that described
  it, none for a client that has left, no handler deleted under its thread, no
  deadlock in `join`;
* write path: the bytes of different packets never mix, no queued packet is
  forgotten, the poller watches a socket for writing exactly while needed, a
  closed channel stays off the poller;
* scheduler and timers: no event lost or run twice, no wake-up lost, shutdown;
* emitter: a video is never overwritten while somebody reads it;
* packetizer and receiver: what the receiver takes for a frame is one;
* live session: what a client is sent belongs to a session it described, an SDP
  names the group that is used, pushing never blocks for good;
* RTSP session: every answer belongs to the request it is taken for, the server
  sends where the receiver listens, every call of the window returns;
* network manager and user: whoever is signed in gets each list, lists never go
  back, publishing survives users that leave, calls return;
* users' table: one account per name and email, owners get in, no missing row is read.

## 2. The modules

| module | models |
|---|---|
| `OnDemandServer` | `TcpServer`, the close path of `TcpConnection`, the commands of `RtspConnection`, `RtpConnection`, `MediaSession::clients_` and `OnDemandSession`, for any number of connections, sessions and descriptors |
| `StreamRegistry` | the abstract specification of the same: who owns a descriptor, what a connection has described, which streams run |
| `LiveSession` | creation of the live sessions, their clients, multicast groups, and `RtspServer::PushFrame` down to one packet for one client, against commands and closing connections |
| `RtspSession` | one RTSP dialogue from both ends: the client's window and worker, the server's parser and handlers, the byte streams between them |
| `RtpStream` | a frame's way from `H264Source::HandleFrame` over the network to `StreamingWorker::run` |
| `TcpConnection` | the write path of one connection: `Send`, `HandleWrite`, `BufferWriter`, the channel's flags, the poller, and all ways to close |
| `TaskScheduler` | the event loop: ring of trigger events, wake-up pipe, `Start`, `Stop`, `EventLoop::Quit` |
| `EventQueue` | the abstract specification of the ring: a bounded queue whose events run once each, in order |
| `TimerQueue` | the timers, and the loop's turn around them |
| `VideoRotation` | one `EnterpriseEmitter`: its two threads, `start`, `stop`, its on-demand sessions' readers, the published list of videos |
| `NetworkManager` | stream lists and how they are published, the client handlers, `NetworkUser` and its two threads |
| `Registration` | the users' table, as the handlers' threads read and write it |
| `MC...` | the constants of the small instances |
| `OnDemandServerProofs`, `TcpConnectionProofs`, `TaskSchedulerProofs`, `VideoRotationProofs`, `LiveSessionProofs`, `RtspSessionProofs`, `NetworkManagerProofs`, `RegistrationProofs` | the theorems, each module's about the one it is named for; `TaskSchedulerProofs` also about `TimerQueue`, `RtspSessionProofs` also about `RtpStream` |

What a module takes for granted, another opens up. `OnDemandServer` abstracts a
flush to its outcomes (sent, skipped, broken), which `TcpConnection` details,
and takes the trigger events for an unbounded queue, which `TaskScheduler` shows
to be a bounded one. `OnDemandServer` and `LiveSession` take whole requests;
`RtspSession` shows what becomes of a request that comes in pieces. All three
take a packet for a unit, which `RtpStream` builds, loses and joins.
`VideoRotation` knows of a client only that it comes, has a thread that reads,
and leaves, as `OnDemandServer` says; that a list is published is one step of it,
and `NetworkManager` what that step is made of. `NetworkManager` lets every
registration and login succeed or fail; `Registration` says when they do.

### OnDemandServer

One variable for each piece of state: `connections` is `TcpServer::connections_`,
`isClosed` and `connMutex` are the fields of `TcpConnection`, `sessionId` that
of `RtspConnection`, `rtp` the `RtpConnection`, `clients` and `mapMutex` belong to
`MediaSession`, `handlers` and `running` to `OnDemandSession`, `triggers` to
`TaskScheduler`. `pc` says where a thread is. A connection object lives as long
as somebody holds a `shared_ptr` to it (`Live`), and its descriptor number is
free again when the destructor has run (`FreeFds`), so numbers are reused as the
operating system reuses them. `Transports` and `Targets` say for each connection
what its client may ask for, which keeps mixed instances small.

A step is what a thread does between two points at which another thread can
matter: a lock that may block, an atomic flag, a join. `mReadingMutex` is taken
inside `map_mutex_` only, so one variable stands for both. Each RTSP command is
one action, with its reply as a `Send` that follows.

A call of `Close` is `CloseTest`, `CloseMark`, `RemoveClient`, `JoinHandler` and
`Disconnected`, run by the loop with the connection's mutex held (`HandleRead`,
`HandleError`), by any thread whose flush fails, or by the loop without the
mutex (the `Close` that `Disconnect` queues).

What it leaves out: the fallback timer of the disconnect callback (the queue is
unbounded here; its 50000 entries need their own model), RTCP channels, digest
authentication (never switched on by this program), sessions that come and go
(all are added before the server starts), and a closed channel that a late
`UpdateChannel` adds back to the poller (see `BackOnlyIfOvertaken` in
`TcpConnection`).

### LiveSession

The main thread creates one session after the other (`AddSession`, `AddSource`,
`StartMulticast`) while the event loop already answers, so a client may describe
a session that has no source or no group yet. `sdp` is `sdp_`, which the first
DESCRIBE fills for good; `None` is the empty text. `owner` is the emitter that holds `RtspServer::mutex_`,
which `PushFrame` keeps for a frame; `push` says where its thread is, and at
which descriptor of `clients_`. DESCRIBE, SETUP and `OnClose` need `mutex_` for a
look-up and are enabled only without an owner; `AddClient` and `RemoveClient` need
`map_mutex_`, which the emitter has while it goes through the list. `SendToClient`
is one entry of the list. Its callback returns how many bytes went out, and the
loop of `MediaSession::AddSource` leaves the list on any value but 0, -1 included,
when the session is multicast: the first connection of the list decides for
all. Over TCP, `TcpConnection::Send` tests `is_closed_` first: of a closed connection it
drops the packet, and `SendRtpOverTcp` returns its size all the same; behind the test
(`write`) the thread waits for the connection's mutex (`SendOverTcp`), which the loop
may have taken meanwhile to close it. Pushing begins when all sessions are there, as in `rtsp_server_main.cc`.

Left out: RTCP; the destruction of sessions, which the program never does.

### RtspSession

`gui` walks through the calls of `MainWindow`: `startRtspStream` sends OPTIONS,
DESCRIBE, SETUP and PLAY and waits for each answer, `stopRtspStream` sends TEARDOWN;
`after` remembers what a stop is part of. `settings` is what the answers tell
`StreamingWorker`, `receiver` the socket it opens with them, `thread` its QThread,
which ends some time after `terminate()` or by itself. `up` holds the lines of
requests on their way, each with the request it belongs to; `HandleRead` takes any
number of them, since TCP keeps no borders, and `srv` is what the server then knows:
the parser's state, the headers seen, the `RtspConnection` and the `RtpConnection`.
The parser answers as soon as it has the header its method needs (`GotAll`), and
what comes after that is taken for the next request, which fails to parse and
closes the connection. Answers, too, may be read in two pieces.

A line cut in the middle is not a case of its own: everything up to the last
line end is consumed, and the rest waits. Of an answer the model keeps what the
client looks at: status, CSeq, address and ports.

### RtpStream

`sender` is where a thread is in `HandleFrame`. The packet is built in four steps
(size and last, payload, header, send), because `rtp_pkt` is one buffer for all
threads that stream an on-demand session. A byte knows the sender, the frame and
its place; `wire` is the network to one receiver, which loses (`Lose`) and
reorders (`Overtake`), and `rx` are the locals of `run`. The receiver joins
payloads until a marker and does not look at sequence numbers. `hurt` records the
frames that were lost, overtaken or overwritten in part. Left out: the retries
before and the re-opening of the decoder, which is FFmpeg's; SPS and PPS, which
are frames like others. Frames have at least five bytes in the program; the model
only needs two.

### TcpConnection

`buffer` is the `BufferWriter`'s queue, each packet with its number and write
index; `events` are the channel's flags and `polled` is what epoll watches;
`free` is the room in the socket's send buffer, which the client empties.
`SocketSend` is one `::send`, `Advance` the bookkeeping after it, `Update` the
change of EVENT_OUT and the unlock. `wire` holds the last bytes taken, which is
all that is needed to say that the byte stream is in order. All packets have the
same size and are numbered modulo `Numbers`, which is larger than the queue, so
the instance is finite although workers stream for ever. `Disconnect` runs in the main
thread and is two steps, since it has the mutex while it queues its event
(`TcpConnection.cpp` 60-67), which makes a `try_lock` fail; `skipped` remembers that a
flush was given up to it or to `HandleRead`, `overtaken` that the first `Close` found
another thread in `HandleWrite` behind its test of `is_closed_` (`PastTest`).

### TaskScheduler

`buffer`, `putPos`, `getPos` and `numDatas` are the `RingBuffer`'s fields. Only
`num_datas_` is atomic, and only the posting side holds the mutex, so a push is
two steps (store and advance, then count) and a pop too (move out and advance,
then count). `pipe` says whether the wake-up pipe has a byte. The size test of
`AddTriggerEvent` comes before the lock, so the ring may be full by the time of
the push, which then drops the event and still writes to the pipe. The loop's own
callbacks post as well, to a ring that only they can empty. `SocketReady` is a
poll that returns for another channel or a timer; timers are in `TimerQueue`. The
poll is that of `EpollTaskScheduler`, which may block for ever (see section 5). The
listening socket's handler needs `EventLoop::mutex_` (`GetTaskScheduler`), which `Quit`
holds from before its stop until it has joined (`Quitting`); nobody else keeps that
mutex for longer than a step.
`Queue` is the part of the ring the loop will see: an event enters with the
increment of `num_datas_` and leaves when `Pop` has moved it out.

### TimerQueue

`timers` and `events` are `timers_` and `events_`, the second as the set of its keys,
pairs of a time and a timer; `nextTimeout` is the field of `Timer`. `turn` is the
turn of `TaskScheduler::Start`: trigger events, timers, the time that remains, poll.
The queue's mutex is held for a whole pass, callbacks included, and otherwise
for single steps; in this repository no callback adds or removes timers, which
would block for ever (`Timer.cpp` 128). `unseen` are the timers added while the
loop polls: nobody wakes it for them. A timer of no delay is queued under the time
of its addition, but remembers one millisecond more (`Interval`).

### VideoRotation

`currentFile`, `videoCounter` and `running` are the emitter's members,
`recordingFile` the local of `liveStreamingLoop`. A file is known by what it
holds, the number of the recording period in which it was last truncated; a
handler that opens it remembers that number (`sees`). The two mutexes that are
held across another wait are expressions: `mMutexRunning` is taken while
`timeStreamElapseLoop` waits for a session's `mReadingMutex`, and that one while
the event loop joins a reader. `streamsInfo` is who has the `NetworkManager`'s
`mStreamsInfoMutex`: this emitter's thread from `UpdateOnDemandStream` until its list
has been sent (`StreamMessageSent`), or the others (`OthersLockStreams`), who may keep
it for ever (`NetworkManager.cc` 286). A reader over TCP that is joined may be left
waiting for its connection's mutex (`BlockInSend`); that a thread closing its own
connection ends the program is in `OnDemandServer` only. `wait_for` is three steps, test, block and wait,
because its mutex protects nothing that `stop` changes. Opening a file may fail,
before or after truncating it, and the camera may end (`CameraFails`).

### NetworkManager

`live`, `times` and `message` are the two lists and the package made of them,
`owner` who holds `mStreamsInfoMutex`. An emitter's thread publishes in one step per
client (`SendStreamMessage`), with the mutex held; a handler's thread answers one
request after the other, and for GET_STREAMS takes the same mutex. `handler` is where
that thread is, or the answer in its `sndPkg`; `mGotAccess` and the sockets are
`access`, `toServer` and `toUser`. An exception of `accept` ends the accept loop for
good (`AcceptFails`).
A message has no length: `Receive` and `Recv` may read several at once, of which the
first is decrypted and the others are lost. When the last of them is RESP:OK, a single
block whose padding depends on the block before it, decryption throws and all are lost
(`Decrypted`), unless chance pads it right; so does a part of a message (`RecvPart`).
The window's thread waits for an answer while, once signed in,
`NetworkUserWorker::run` reads the same socket; either may get a pushed list.
`receiveMessage` is two steps: `Recv` puts messages into `mRcvPkg`, which the two
threads share, so that one that has not decrypted its own may see the other's or
nothing (`Received`), and `GuiStores` or `WorkerStores` stores a list in `mStreams` and
sets `mGotStreams`. The worker then drops the list to the window (`WorkerDrops`) and
resets the flag (`ResetStreams`). `merged` says that a list came together with another
message and was not seen, `beside` that the window has waited for an answer while the
worker ran. A program that
ends, or that an exception of the decryption ends (`network_user_worker.cpp` 83),
leaves its handler and the entry in `mClientSockets` behind: the cleaner's thread
is never started.

Left out: `stop`, which nobody calls; the acceptor's `push_back` while
`sendStreamMessage` goes through the list without a lock (`NetworkManager.cc` 397),
undefined behaviour whose outcomes have no useful bound; for the same reason two
threads inside the vectors `mStreams` and `mUrls` at a time: a list is stored, read and
dropped in one step each.

### Registration

`accounts` is the table `users`, external, with no column unique. A text is kept
as what was `typed` for it and as the `row` that the database made of it: the
program pastes texts unescaped between quotes (`NetworkManager.cc` 60-61, 106), so
`Literal` says what the database reads there, `Malformed` when a quote ends the
literal early and the query is refused. `checkExistance` compares by `strcmp`
(`Rows`), `checkPassword` by `=` under the column's collation, of which nothing in
the repository says what it is: `Fold` maps texts that are equal to it to the same
(`HasText`). Both are constants about which nothing is assumed; a text is `Plain`
when its literal is the text. That a quote makes another well-formed statement, and
that a column cuts a long text off, are left out. Next to each account the model
keeps what its registration had seen of the table. All handlers' threads share one
`MYSQL` connection without a lock, so a query fails while `pending` is another
thread's; any query may fail (`Fail`). To register is `findUsername`, `findEmail`,
`insert`, to sign in is `findUser`, `findPassword`, each SELECT in two steps, query
and fetch; a password's query that finds no row crashes the program (`down`). A
text with an "@" is looked for as an email: a username with one can be registered
and never signs in (`NetworkClientHandler.cc` 230). Commands other than the two are
`NetworkManager`'s.

## 3. What the runs check

All runs use `CHECK_DEADLOCK FALSE`: a server with no connection left and no
client to come has nothing to do, and a terminated process stops. Each model of code
states `TypeOK` (`TimersTypeOK`, `StreamTypeOK`), which is proved; the runs check
again only that of the frame, which holds the buffers in their bounds.

| run | instance | shows |
|---|---|---|
| `OnDemandStop` | 2 connections, 1 video, 1 descriptor, UDP, `Stop`, fairness | whoever described the video has its own entry and handler (`DescribedHasHandler`), also on a reused descriptor; each `Close` and each removal that is due is queued or under way (`NoCloseForgotten`); every close completes, and `Stop` waits only for connections its sweep missed |
| `OnDemandMixed` | 2 connections on 1 descriptor: one describes two videos over and over by UDP, one streams a video by UDP or TCP | the server implements `StreamRegistry` (`RegistrySpec`); a handler outlives its thread; open connections stay registered |
| `OnDemandPlay` | 1 connection, 1 video, UDP | a violation, see below |
| `TcpWrite` | 1 worker, the loop and the main thread, queue of 2, packets of 2 bytes, room for 1, a `Disconnect`, fairness | bytes in order, a flush lost only to `HandleRead` or `Disconnect` (`FlushLostOnlyToReadOrStop`), every packet leaves, a closed channel is polled only if its `Close` overtook a thread (`BackOnlyIfOvertaken`) |
| `Scheduler` | a thread and the loop post 3 events each, ring of 2, `Quit` at any time, fairness | the ring implements `EventQueue`; the loop never sleeps over an event or a stop; every event runs unless the loop ends, and `Quit` returns, both unless `Quit` meets the loop in an accept (`AcceptMeetsQuit`) |
| `Timers` | 3 timers, one that repeats, delays of 0, 1 and 2, fairness | the two containers agree (`QueuesAgree`); the loop sleeps past no timer it knew (`NoMissedTimer`); due timers run (`DueTimersRun`) |
| `Rotation` | 1 client over TCP, 2 sessions, 4 periods, a camera that may fail, a recorder that may be late, other holders of `mStreamsInfoMutex`, fairness | a session's own file is never recorded over under a client that came while it was saved; the list names the latest recordings; `stop` returns, unless `mStreamsInfoMutex` stays locked or the reader is left waiting in `Send` |
| `Live` | 2 sessions, 2 clients on 2 descriptors, 2 groups, all transports, packets one by one, 2 DESCRIBEs | whose packets a client gets (`StraysOnlyIfDescribed`); SDPs name the group (`SdpNamesGroup`); what alone stops the thread that holds the server's mutex (`StuckOnlyByTcp`) and what alone silences a group (`SilentOnlyIfDeafClient`) |
| `Session` | 1 connection used again and again, a live and a saved stream, requests and answers in pieces, CSeq modulo 3, fairness | answers are those awaited (`AnswersAreAwaited`); the server sends where the receiver listens (`PlayedReachesReceiver`); calls return (`CallsReturn`) |
| `Stream` | 2 threads on one `rtp_pkt`: one sends frames of 1, 2 and 3 packets into a lossy wire, the other one frame | types (no buffer is overrun); what the receiver decodes is a frame as sent, or one since the last marker was spoiled (`SpoiledUpToMarker`) |
| `Network` | 1 emitter with a video, 1 user who clicks twice, sockets of 2 messages, an accept loop that may end, fairness | every connected user has been sent the present list (`SentIsCurrent`); only a joined message hides one (`OnlyMergingHides`) and lists never go back (`ListsNeverGoBack`), unless the window waits beside the worker; publishing goes on; signing in returns, unless the worker takes the answer, the handler has died or the accept loop has ended |
| `Registration` | 2 threads with 2 requests each; a name, the same in capitals, with one and with two backslashes, with a quote; an address | which causes let accounts share a name (`SharedOnlyInRace`); owners of plain names get in (`OwnersSignIn`); the dereferenced row exists for a plain name (`PasswordHasRow`) |

Bounds and why they are enough. Two connections on one or two descriptors are
what reuse needs: one that leaves, one that takes its number. Two videos are
what a second DESCRIBE needs. `OnDemandServer` has no other bound: each
connection is opened once, but sends any number of requests. A worker and the
loop contend for everything in `TcpConnection` (the safety properties are proved
for any number of workers); a packet of two bytes is sent in two
parts, a queue of two is full at once, and room for one byte stops every flush in
the middle. `MaxRequests` bounds the replies the loop sends; the workers' sends
are not bounded.

`MaxPosts` bounds how many events each thread posts: two threads with three
events each go round a ring of two three times and find it full in every position.
`MaxTimers` bounds additions: three timers are one that runs, one that is removed
and one that is added during the poll; `MaxTime` stops the clock after the longest
delay has elapsed and one more unit. `MaxPeriods` bounds the recording periods: with
two sessions the third period comes back to the first session's file and the fourth
to the second's, own or `.tmp`.

In `Live`, two sessions and two groups are what a stray packet or a group drawn
twice needs, and the pool may give either session none; two clients are the first
of a list and one behind it; `MaxDescribes` leaves one DESCRIBE for each, or both
for a client that changes its session. A frame of one packet is enough since
nothing is kept from one packet to the next. In `Session`, `CSeqs` of 3 wraps several
times within one stream, and more than one request is never under way, so that a
wrapped number cannot meet itself. In `Stream`, `MaxPayload` of 4 and frames of 4, 5
and 7 bytes are the largest single packet, the smallest frame that is cut and one
of three packets; `MaxFrame` of 6 is less than the longest frame, so the receiver's
buffer overflows too; a wire of two packets reorders. The second sender only has to
overwrite `rtp_pkt`. In `Network`, a live stream and a video published once make
lists older and newer, sockets of two messages join and fill up, and two clicks sign in
a second time beside the worker; a second emitter publishes under the same mutex, a
second user changes nothing in the first one's view but the order of the loop, and the
proofs hold for any number of both.
In `Registration`, two threads make the race, and two requests each a registration
before or after it and a login; of the texts, each of the three causes in
`SharedOnlyInRace` has a pair, and the one with two backslashes reaches the crash.

### Disagreements

`OnDemandPlay` expects a violation: the thread that streams a video starts at
DESCRIBE. If its first frame is ready before PLAY is handled, `SendRtpPacket`
refuses it and the thread leaves; PLAY is answered with 200 and nothing is ever
sent, while `src/README.md:10` promises to send the saved videos.

The checks and the models show more, of which no document of the repository
speaks, so that there are no runs for it:

* A client that streams over TCP leaves: the event loop runs `Close` with the
  connection's mutex held and joins the worker, the worker waits for that mutex in
  `Send` (`OnDemandSession.cc` 61): `OnDemandServer` with a TCP client reaches it. The
  repository's own client uses UDP, where no worker sends on the connection.
* The worker's own `::send` fails: the worker runs `Close`, joins itself and the
  process ends (`JoinSelf`, which `OnDemandMixed` takes).
* A client describes two videos and leaves: the first one keeps its entry, and
  the next client with that descriptor number gets no stream of it
  (`DescribedHasHandler` with two videos).
* A session learns its video at the end of a recording period. When the recorder
  comes round to the session's own file, the session names it for one more period,
  and a client that comes then is sent what is being recorded.
* The `.tmp` file is chosen when the own file has a reader, and nobody asks who
  reads the `.tmp` file (`EnterpriseEmitter.cc` 211-218): it is truncated under a
  client that came while it was the saved video, if the own file has a reader a
  round later. TLC reaches this with two clients, two sessions and five periods;
  `ReadersKeepTheirVideo` speaks of the own file only.
* The thread that changes the files waits for `mStreamsInfoMutex`, so that a user
  who reads nothing, or a mutex left locked, stops the recordings from going round,
  and `stop` from returning (`NetworkManager.cc` 317).
* A thread that has passed the test of `is_closed_` in `HandleWrite` may add a
  closed channel back to the poller (`TcpConnection.cpp` 99-135,
  `EpollTaskScheduler.cpp` 33-36); `BackOnlyIfOvertaken` says that nothing else does.
* `EventLoop::Quit` joins the loop's thread with `EventLoop::mutex_` held
  (`EventLoop.cpp` 105); if the loop is accepting a client, `OnConnect` waits for that
  mutex in `GetTaskScheduler` (`RtspServer.cpp` 99), and neither goes on
  (`AcceptMeetsQuit`, which TLC reaches).
* A `Quit` that comes before the loop's thread has reached `Start` is lost, because
  `Start` clears the flag: `QuitReturns` speaks of a flag set later.
* A timer that another thread adds while the loop polls waits until something
  else wakes the loop (`Timer.cpp` 68-80); it bites in the fallback of the
  disconnect callback (`TcpServer.cpp` 24-27). A timer of no delay that is removed
  before it has run stays in `events_` and runs (`Timer.cpp` 78). `NoMissedTimer`
  and `QueuesAgree` name these cases.
* On a multicast session the first entry of `clients_` decides whether a packet is
  sent: a client that has only described, or has torn down, silences the group for
  all as long as it stays connected (`MediaSession.cpp` 127), and so does one over TCP
  that is closing, whose packet counts as sent (`RtpConnection.cpp` 283). A client that describes
  a second session is left in the list of the first and is sent its packets.
* A live session over TCP can stop the server: `PushFrame` holds the server's mutex
  while it waits for a connection's, whose `Close` waits for the server's
  (`RtspServer.cpp` 87). It takes a session that got no multicast address.
* A request that is cut behind the header its method needs is answered, the rest
  is taken for the next request and the connection is closed.
* Fragmented frames lose the first byte of their start code, and a reordered or
  lost packet yields a frame with a hole, which the decoder gets.
* A stream list can pass for the answer to a login (`NetworkUser.cc` 96), and a
  list that comes behind another message is lost until the next one.
* A list with RESP:OK behind it in one `recv` makes the decryption throw
  (`NetworkDecryptor.cc` 39-42): the list is lost and the user is not signed in.
* Who signs in a second time waits for the answer beside the worker, on one buffer,
  one list and one flag without a lock (`NetworkUser.cc` 96-125): the window may go
  back to an older list, miss one, or wait for an answer that the worker took.
  `ListsNeverGoBack`, `OnlyMergingHides` and `SigningReturns` exempt it, and TLC finds
  each violated otherwise.
* An exception of `accept` ends the accept loop (`NetworkManager.cc` 355-358), and no
  handler ever closes its socket, so descriptors do run out: later users connect and
  wait for an answer for ever (`SigningReturns`).
* A handler whose answer to GET_STREAMS fails leaves the mutex of the lists locked,
  for every emitter (`NetworkManager.cc` 286).
* Two users can register one name at the same time; one of them may then never
  sign in.
* The check of a name, the insertion and the login do not speak of the same text.
  Of a user who registers `a\c`, `checkExistance` looks for `a\c` and the database
  stores `ac`, which may be there already, and the user is refused as missing
  afterwards (`NetworkClientHandler.cc` 234). Of one who registers `a\\c`, `a\c` is
  stored; a login as `a\c` passes `checkExistance`, `WHERE username='a\c'` looks for
  `ac`, and without such a row `row[0]` (`NetworkManager.cc` 118) dereferences NULL.
  A name with a quote cannot be registered at all. `SharedOnlyInRace`,
  `OwnersSignIn` and `PasswordHasRow` name these exemptions; TLC finds each of the
  three violated without them.

### Fairness

A thread that can take its next step takes it (weak fairness of each thread's
own steps): the system schedules every thread, and a mutex is eventually given
to a waiter when it stays free; `OnDemandStop` and `TcpWrite` need no more.
`HandleTriggerEvent` has strong fairness: `TaskScheduler::Start` drains the queue
on every turn, and between turns the loop may be busy with a channel, so the step
is disabled again and again, but never skipped. `Accept`, requests, hang-ups and
`Stop` have no fairness: clients may do nothing. `TcpWrite` also assumes that
the client keeps receiving, the workers keep streaming and the poller reports a
writable socket that it watches; without the worker the loss of a flush to
`HandleRead` or `Disconnect` (`TcpConnection.cpp` 105) may last until the next packet.

In `TaskScheduler` each posting thread has strong fairness, since the mutex is
taken and released by others in between, and the loop and `Quit` weak fairness;
no thread has to post and no socket to become ready, so that the pipe alone must
wake the loop. In `TimerQueue` the loop takes its steps and `epoll_wait` ends when
its timeout has elapsed; nothing else has to end the poll, and time need not pass.

In `VideoRotation` `timeStreamElapseLoop` has strong fairness for
the same reason as the posting threads (`mMutexRunning`, `mReadingMutex` and
`mStreamsInfoMutex`), the timer runs out, and a reader's thread comes to its end when
told to, every picture it sends being followed by a look at its flag, or to the wait
in `Send` that it never leaves. Sending the list need not end, the others need not
give the mutex back, and `Start`, `Stop` and the clients owe nothing: `StopReturns`
names what it takes, that the mutex comes free again and again and that no reader is
left in `Send`.

In `RtspSession` the window's thread and the server's loop run; no piece of a
request has to be as long as the request, and nobody has to click. In
`NetworkManager` the emitters' timers elapse again and again, threads run, and who
waits for the mutex, or in a send for room in a socket, gets it if it comes again
and again; users may leave, crash or stop reading. `LiveSession`, `RtpStream` and
`Registration` state safety only.

## 4. What is proved

TLAPS proves the following for every value of the constants: every set of
connections, sessions, descriptors, users and emitters, every number of workers,
timers and accounts, every capacity, packet size and socket, from the named
assumptions on the modules' constants only.

| theorem | says |
|---|---|
| `OnDemandServerProofs!AlwaysTyped`, `TypeCorrect` | types, and: connections are registered under their own descriptor, threads work for accepted connections |
| `HandlerSafe` | `[]HandlerOutlivesThread`, with TCP and `Stop` |
| `OpenSafe`, `RemovalSafe` | `[]OpenStaysRegistered` and `RemovesOnlyClosed`, unless `Stop` runs while clients may stream over TCP |
| `ClosesSafe` | `[]NoCloseForgotten`, under the same assumption |
| `RefinesRegistry` | `Spec => RegistrySpec`: the server implements `StreamRegistry`, unless `Stop` runs while clients may stream over TCP, and when such a client describes one session |
| `DescribedSafe` | `[]DescribedHasHandler`, unless `Stop` runs while clients may stream over TCP, and when every client describes one session |
| `TcpConnectionProofs!TypeCorrect` | types: the queue within its capacity, indexes within their packets |
| `FlushLost`, `NoIdleWriting` | `[]FlushLostOnlyToReadOrStop`, `[]OutOnlyWithData` |
| `WireSafe` | `WireInOrder` |
| `BackSafe` | `[]BackOnlyIfOvertaken` |
| `TaskSchedulerProofs!TypeCorrect` | types: the ring within its capacity, positions inside it |
| `QueueImplemented` | `Spec => QueueSpec`: the ring implements `EventQueue` |
| `WakeupSafe` | `[]NoMissedWakeup` |
| `TimersTypeCorrect` | types of `TimerQueue` |
| `QueuesSafe` | `[]QueuesAgree`: `timers_` and `events_` hold the same timers |
| `SleepSafe` | `[]NoMissedTimer` |
| `VideoRotationProofs!TypeCorrect` | types |
| `ReadersSafe` | `[]ReadersKeepTheirVideo`, whatever fails |
| `SessionsSafe` | `[]SessionsReadTheirOwn` |
| `ListedSafe` | `[]ListedAreTheLatest`, whatever fails |
| `LiveSessionProofs!TypeCorrect` | types |
| `StraysSafe`, `SdpSafe` | `[]StraysOnlyIfDescribed`, `[]SdpNamesGroup` |
| `SilentSafe` | `SilentOnlyIfDeafClient` |
| `RtspSessionProofs!TypeCorrect` | types, CSeq included |
| `AnswersSafe` | `[]AnswersAreAwaited`, however requests and answers are split |
| `ReceiverReached` | `[]PlayedReachesReceiver` |
| `StreamTypeCorrect` | `[]StreamTypeOK`: no payload longer than `MAX_RTP_PAYLOAD_SIZE`, no receiver's buffer full |
| `SpoiledSafe` | `[]SpoiledUpToMarker`, for any number of threads on one `rtp_pkt`, any sizes and any payload size |
| `NetworkManagerProofs!TypeCorrect` | types |
| `SentSafe` | `[]SentIsCurrent` |
| `HidesSafe` | `[]OnlyMergingHides`, however messages are joined or cut, as long as the window does not wait beside the worker |
| `NeverBack` | `ListsNeverGoBack`, under the same condition |
| `RegistrationProofs!TypeCorrect` | types |
| `SharedSafe`, `OwnersSafe`, `RowSafe` | `[]SharedOnlyInRace`, `[]OwnersSignIn`, `[]PasswordHasRow`, whichever queries fail, whatever the database reads in a literal and however it compares |

The arguments. `Typed` adds to `TypeOK` what makes it inductive: a thread that is
not idle has an accepted connection, and `AddClient` runs on a session that was
found. `HandlerOutlivesThread` is then inductive by itself: a thread starts with
its handler, and only `JoinHandler` deletes one.

`OpenStaysRegistered` is not: a queued `RemoveConnection` names a number, and has
to be shown to hit the right connection. `Orderly` says why it does as long as at
most one thread is inside a connection's `Close` (`OneCloses`): what a thread is
about to mark is open (`ClosesOnlyOpen`), until it has queued the removal the
connection is closed, registered, and has no removal queued
(`DepartedRegistered`), and every queued removal names a registered, closed
connection, each number at most once (`OneRemovalQueued`).

`OneCloses` has two reasons, and needs one of them. When nobody runs `Stop`, every
`Close` holds the connection's mutex (`CloserHoldsMutex`). When no client may stream
over TCP, a worker never sends on a connection or closes one (`UdpServer`), so only the
loop closes, also those that `Stop` disconnects. Hence the
assumption `StopsOverUdp` of the theorems (`Stopping => NoTcp`), which the
repository's own client meets. Without it `Disconnect`'s `Close`, which does not hold
the mutex, runs into a worker's: both queue a removal, and when the client has
described two videos over TCP, so that the worker joins another one than itself, TLC
finds that the second removal takes an open connection from the registry.

`NoCloseForgotten` is the safety half of `CloseCompletes` and
`StopOnlyWaitsForUnswept`: who waits, waits for an event in the queue or for a thread
inside a `Close`. An event leaves the queue only by being taken
(`QueuedUntilTaken`), and a thread inside a `Close` goes on with it (`CloseGoesOn`),
which needs that DESCRIBE does not start a thread anew that is still in there: as
long as a connection lives, the entry of a worker that streams to it is there
(`AliveHasEntry`, below). The argument does not use the mutex; the theorem has the
assumption because `AliveHasEntry` rests on `Orderly`. TLC finds it kept without the
assumption, too, when the second client of `OnDemandStop` may stream over TCP
(`Transports <- SecondOverTcp`), with one video and with two.

The refinement of `StreamRegistry` needs `Bound`, which ties a stream to its
connection. A descriptor has at most one living connection (`OneLives`); as long as
a connection lives, the entry of a worker that streams to it is its own
(`AliveHasEntry`), so the worker that a `RemoveClient` finds under the number is the
right one; a stream that was described last is over, or being joined, once the
connection is marked closed (`ClosedIsOver`); and every thread works on the session
its connection has described last (`WorksOnDescribed`), which says why `OnClose`,
looking at `session_id_` alone, removes from the right session. Each action then is
a `Connect`, `Describe`, `Begin`, `End`, `Close` or `Release`, or none of them:
`Close` happens in `CloseMark`, `End` when the worker leaves its loop, and `Release`
in whatever step lets go of the last pointer, which `OneMoves`, `LosesLife` and
`PhasesStay` establish for all steps together. With `Stop`, a queued
`Close` too keeps its connection alive (`CloseQueued`), until the loop takes it and
works on the connection itself. The theorem has two assumptions. Besides
`StopsOverUdp`, which `Orderly` needs, there is this one. A worker whose flush
fails closes a connection whose request the loop is handling: if the client may
describe a second session, the loop does so for a connection that is closed, which
`StreamRegistry` forbids, and TLC shows it with one client, two sessions and TCP
(`TcpDescribesOne` excludes it).

`DescribedHasHandler` adds `EntriesAreServed`: an entry is that of a living connection
that has described the session and has its handler, so that a new client with the
number, for which `OneLives` leaves no other living connection, finds it free.
With two sessions the entry of the first stays behind, and the theorem would be
false (see the disagreements); `OnDemandStop` checks the property with `Stop`.

In `TcpConnection`, `MutexIsHeld` says that exactly the thread inside a section
owns the mutex, and `OwnCode` which sections are whose. `Watched` relates the poller to
the channel's flags and these to the queue: who fails to get the mutex finds it with a
thread that will look at the queue itself, or with one that `skipped` remembers.
`NobodyBehind` says that after a `Close` that overtook nobody no thread is behind the
test, and none gets there. `Ordered` relates the queue to the wire: numbers are consecutive, the
thread between `::send` and the bookkeeping is alone and the last bytes sent are
those at the front, and otherwise the front follows the last bytes sent. With
`WireInOrder` being about a step, `WireSafe` combines `Ordered` with what a
`::send` does.

In `TaskScheduler`, `Ring` relates the two ends of the ring: `putPos` is as many
places after `getPos` as there are events, the one stored but not counted
included (`PutFollows`), these places hold events (`Contents`), and the slot that
`Pop` has emptied and not yet given back keeps them from meeting (`Bounded`).
Every step then is a `Post`, a `Take` or nothing of `EventQueue`. `WakeupSafe` adds
`StopSignalled`: after a stop the byte is in the pipe, or to be written, until the
loop is on its way out.

In `TimerQueue`, the types and the two properties are inductive together:
`HandleTimerEvent` re-keys a timer under the time its `nextTimeout` is set to, so the
containers keep agreeing, and the time the loop sleeps is that of the first event.
That there is a first event among finitely many is not induction over them: times
are numbers, and `<` is well-founded.

In `VideoRotation`, `Inductive` adds that the current file belongs to the session
`mVideoCounter` points at, except between the two assignments
(`CurrentIsCounted`), and that it is never the file of a handler that came while
that file was saved (`SavedIsNotCurrent`): the choice of the file looks at every
handler of its session, also one whose thread has not opened the file yet, and
the recorder opens nothing but the current file, so being late does no harm.
`ListedSafe` rests on `ListFollowsCounter`, which computes each session's entry from
the period and `mVideoCounter` (`Latest`): sessions below the counter have the last
recordings, those from it on the ones of the round before, if there was one; between
the list's change and the counter's the one entry is ahead.

In `LiveSession`, `Inductive` has five parts besides the types. Only complete
sessions have a group and no two the same (`GroupsAreApart`): the pool hands out
what no session has. `BoundToAsked` keeps, through commands in any order, what a
connection is bound to within what it has described. The event loop has a
connection that is open until it is being removed (`LoopHasConnection`), which is
what keeps an entry from being added for one that has left. `AnsweredWhenReady` says
that the first answer is kept, and right if nobody came too early.
`PassedAreCleared` follows `PushFrame` along the list: as long as nothing went
out and nothing failed, every entry behind it had ended and was cleared, none is
added while it holds `map_mutex_`, and a thread that waits in `Send` ("write") has an
entry before it. That the next descriptor is the least beyond
the last one uses that `<` is well-founded.

In `RtspSession`, `Conversation` adds five parts to the types and to what the window
relies on before each call (`Calling`). One request is under way at a time: from a
request line on, every line in `up` and what the parser holds is of the last request,
and between two requests the parser remembers no CSeq (`Parsing`); a whole answer is
to the last request, and the server rests once it has given it (`Answered`), as it
does whenever the window does not wait (`Settled`). The lines that come behind the
header a method needs are no request, so they end the connection and never are
answered. The half of an answer that stays behind when it is read in two pieces
meets no request but TEARDOWN, after which the window closes the connection whatever
it reads (`Unsplit`). `Streaming`
then follows the endpoint: what the answer to SETUP says is where the server sends,
the worker listens there, and PLAY changes neither. Nothing in the argument counts
CSeqs: a number that wraps may well repeat, since no older request is left.

In `RtpStream`, `Journey` says where the bytes of a frame are. `Placed`: a thread is
inside its frame, and whatever is under way, heard or hurt is of a frame that was
handled. Of frames that are not hurt: each packet carries bytes of its own frame,
with the marker on the last ones (`Carried`), which a step of another thread cannot
change, since `SendRtpPacket` is one step and marks as hurt whatever it finds
overwritten; packets are in order (`Sorted`), each is followed by the next piece
(`Following`), the first one nobody has heard of is the first piece (`Opening`), and
between two pieces the one before is the last on the way or has been heard
(`Halfway`). `Collected` is the receiver's side: if nothing it has heard since the
last marker is hurt or too long, it holds nothing, or the beginning of one frame whose
next byte is in front. That needs no sequence numbers: to be joined wrongly, a
frame must have lost or moved a packet, and then it is hurt. The property speaks of
the frames heard since the last marker, and no others: a frame that is lost as a
whole spoils nothing.

In `NetworkManager`, `Publishing` says that exactly the thread in the loop or in the
answer holds the mutex, and that the loop stays within the clients that are there.
`SentIsCurrent` speaks only of moments at which the mutex is free; `Sending` says
what holds meanwhile: who has not been sent the present list stands in the part
of `mClientSockets` that the round under way has yet to come to (`ToBeSent`). It
needs that whoever was sent a list has access and is in the list of clients
(`Addressed`), and that clients are only ever appended.

For the windows, `Window` follows a list through the socket, the thread that has
received it (`Read`), `mStreams` (`Stored`) and the widget. `Apart` says what the
condition on `beside` buys: window and worker are never both inside
`receiveMessage`, and outside it no text is a list. `Reaches`: the last list in the
socket is the one sent last, and with none in the socket the window has it, or is
about to, unless a joined message hid it. `InOrder`: what was published, what is in
the socket from its end to its head, what was read, what waits and what is shown
become older in this order (`Sorted`), so nothing newer is ever overwritten. A list
that is lost with another message counts as merged, wherever it stood. Both are shown
to survive a message that is appended, any number that are taken and one that is cut;
the publishing side enters only through `Sending`.

In `Registration`, `Knows` says what a thread learnt of the table at each of its
steps, as a bound on how far the table went when it looked, and `Refused` why it
refused. Since the table only grows, what one thread learnt is not undone by
another's insertion, and what lies within the bound differs, to `strcmp`, from what
was looked for: the race is exactly the gap between the bound and the insertion.
`RowsWritten` ties each row to what was typed, so that for a plain text what was
looked for is what is stored, and what `strcmp` finds `=` finds again.

Only model-checked: the liveness properties, `StopOnlyWaitsForUnswept` and
`CloseCompletes` among them, of which `NoCloseForgotten` is what can be proved;
`StuckOnlyByTcp`, which speaks of ENABLED (both are beyond the prover); and what the
assumptions above exclude, as far as it holds: a server that is stopped while
clients stream over TCP.

## 5. Plan

Done: all modules of section 2. What is left, in this order:

1. The fallback timer of the disconnect callback, which composes `OnDemandServer`
   with the bounded ring of `TaskScheduler` and with `TimerQueue`.
2. A second SETUP over UDP with its RTCP channels, and `SendRtpOverUdp` on sockets
   that were replaced; `EventLoop` with several schedulers; `TcpServer::Start`.
3. `RtspPusher` with ANNOUNCE and RECORD, and digest authentication; `MemoryPool`.

### Not modelled

* The Qt forms and dialogs beyond the calls they make, the decoder and everything
  in `H264StreamingAPI`: drawing and wrappers of FFmpeg. What opening and reading
  a file return is a choice where it is called.
* The wrappers of sockets, pipes, interfaces, time and the log: what the system
  calls return is a choice, too.
* The cipher and the containers of messages: pure conversions. That a part of a
  message or two messages in one are not decrypted to what was sent is in
  `NetworkManager`.
* `RtspPusher`, `DigestAuthentication`, the sources and parsers for AAC, G.711 and
  H.265: library code that no program of the repository reaches. `MemoryPool` hands
  out blocks under one lock and meets nothing else.
* `SelectTaskScheduler`. `EventLoop::Loop` takes it on Windows and `EpollTaskScheduler`
  on Linux (`EventLoop.cpp` 62-66). The library is written for both, the program
  `rtsp_server_main.cc` for Windows only (`conio.h`), so what the models say of a poll
  is about a server built from the library on Linux. With select a poll ends after 10
  milliseconds or when the next timer is due (`SelectTaskScheduler.cpp` 78, 164), so it
  never sleeps for ever over an event, a stop or a new timer, and the channels are held
  by shared pointers, so that a channel added back is not left dangling.
* `NetworkManager::stop`, the cleaner's thread, `RemoveSession`, `RemoveSource` and
  the destructors of sessions: nothing calls them while clients are there.
* The examples of the library and its third-party code.

`PROJECT.json` lists every component with its status.
