--------------------------- MODULE OnDemandServer ---------------------------
(***************************************************************************)
(* The RTSP server while it serves saved videos: TcpServer (registry of    *)
(* connections), TcpConnection (close path and locking of a send),         *)
(* RtspConnection (the RTSP commands), RtpConnection (what one client has  *)
(* set up), MediaSession (clients of a session) and OnDemandSession (one   *)
(* thread per client that reads a file and sends it).                      *)
(*                                                                         *)
(* Threads: the event loop (Loop), one worker <<s, c>> per client c of the *)
(* on-demand session s (OnDemandSession::onDemandLoop), and the main       *)
(* thread, which only runs TcpServer::Stop.  A step is what a thread does  *)
(* between two points where another thread can matter: a lock that may     *)
(* block, a read of a flag another thread writes, a join.                  *)
(***************************************************************************)
EXTENDS Naturals, Sequences

CONSTANTS
  Conns,       \* the TCP connections that clients open, each used once
  Sessions,    \* the on-demand sessions
  Fds,         \* the socket descriptors the operating system hands out
  Transports,  \* Transports[c]: what client c asks for in SETUP, "udp" or "tcp"
  Targets,     \* Targets[c]: the sessions client c may DESCRIBE
  Stopping,    \* whether the main thread ever runs TcpServer::Stop
  Loop,        \* the event loop's thread
  NoConn, NoSession, NoFd, NoThread

ASSUME ConstantsAssumption ==
  /\ Transports \in [Conns -> SUBSET {"udp", "tcp"}]
  /\ Targets \in [Conns -> SUBSET Sessions]
  /\ Stopping \in BOOLEAN
  /\ Loop \notin Sessions \X Conns
  /\ NoConn \notin Conns /\ NoSession \notin Sessions /\ NoFd \notin Fds
  /\ NoThread # Loop /\ NoThread \notin Sessions \X Conns

Workers == Sessions \X Conns
Threads == {Loop} \cup Workers

VARIABLES
  fdOf,         \* the descriptor a connection was accepted on
  connections,  \* TcpServer::connections_
  isClosed,     \* TcpConnection::is_closed_
  connMutex,    \* owner of TcpConnection::mutex_
  sessionId,    \* RtspConnection::session_id_
  rtp,          \* RtspConnection::rtp_conn_ and the RtpConnection behind it
  clients,      \* MediaSession::clients_, by descriptor
  mapMutex,     \* owner of MediaSession::map_mutex_, and with it mReadingMutex
  handlers,     \* OnDemandSession::mHandler, as the pairs <<s, c>>
  running,      \* the handlers whose running flag is set
  pc,           \* where each thread is
  serving,      \* the connection the event loop works on
  target,       \* the session a thread adds a client to or removes one from
  triggers,     \* TaskScheduler::trigger_events_
  stop,         \* where the main thread is in TcpServer::Stop
  swept,        \* the connections Stop has called Disconnect on
  terminated    \* std::terminate has ended the process

netVars     == <<fdOf, connections, triggers>>
sessionVars == <<clients, mapMutex, handlers, running>>
stopVars    == <<stop, swept>>
vars == <<netVars, isClosed, connMutex, sessionId, rtp, sessionVars,
          pc, serving, target, stopVars, terminated>>

(* The steps of a Send and of a Close, which any thread may run.           *)
SendPcs  == {"send", "sendLock", "flush"}
ClosePcs == {"close", "closing", "removeClient", "join", "disconnect"}
LoopPcs  == {"idle", "read", "request", "addClient", "error"} \cup SendPcs \cup ClosePcs
(* How a worker can have left onDemandLoop.                                *)
EndPcs   == {"done", "refused"}
WorkerPcs == {"none", "open", "check", "frame"} \cup EndPcs \cup SendPcs \cup ClosePcs

Rtp == [made : BOOLEAN, mode : {"udp", "tcp"}, setup : BOOLEAN, play : BOOLEAN, closed : BOOLEAN]
NoRtp == [made |-> FALSE, mode |-> "udp", setup |-> FALSE, play |-> FALSE, closed |-> FALSE]

RemoveEvent(fd) == [kind |-> "remove", fd |-> fd]
CloseEvent(c)   == [kind |-> "close", conn |-> c]
TriggerEvents == {RemoveEvent(fd) : fd \in Fds} \cup {CloseEvent(c) : c \in Conns}

TypeOK ==
  /\ fdOf \in [Conns -> Fds \cup {NoFd}]
  /\ connections \in [Fds -> Conns \cup {NoConn}]
  /\ isClosed \in [Conns -> BOOLEAN]
  /\ connMutex \in [Conns -> Threads \cup {NoThread}]
  /\ sessionId \in [Conns -> Sessions \cup {NoSession}]
  /\ rtp \in [Conns -> Rtp]
  /\ clients \in [Sessions -> [Fds -> Conns \cup {NoConn}]]
  /\ mapMutex \in [Sessions -> Threads \cup {NoThread}]
  /\ handlers \subseteq Workers
  /\ running \subseteq Workers
  /\ pc \in [Threads -> LoopPcs \cup WorkerPcs]
  /\ serving \in Conns \cup {NoConn}
  /\ target \in [Threads -> Sessions \cup {NoSession}]
  /\ triggers \in Seq(TriggerEvents)
  /\ stop \in {"run", "disconnecting", "closing", "waiting", "stopped"}
  /\ swept \subseteq Conns
  /\ terminated \in BOOLEAN

-----------------------------------------------------------------------------
(* The connection a thread works on; Loop returns to idle, a worker to the *)
(* test at the head of its loop.  An idle loop works on no connection.     *)
ConnOf(t) == IF t = Loop THEN serving ELSE t[2]
Resume(t) == IF t = Loop THEN "idle" ELSE "check"
Goto(t, label) ==
  /\ pc' = [pc EXCEPT ![t] = label]
  /\ serving' = IF t = Loop /\ label = "idle" THEN NoConn ELSE serving

(* A connection object lives as long as somebody holds a shared_ptr to it: *)
(* the registry, a queued Close, the thread that runs one of its methods.  *)
(* RtpConnection::GetId is negative from then on, and its destructor gives *)
(* the descriptor back.                                                    *)
Holds(t, c) ==
  /\ ConnOf(t) = c
  /\ IF t = Loop THEN pc[t] # "idle" ELSE pc[t] \in SendPcs \cup ClosePcs
Live(c) ==
  /\ fdOf[c] # NoFd
  /\ \/ connections[fdOf[c]] = c
     \/ \E i \in 1..Len(triggers) : triggers[i] = CloseEvent(c)
     \/ \E t \in Threads : Holds(t, c)
Gone(c) == fdOf[c] # NoFd /\ ~Live(c)
(* A slip: Close gives the descriptor back at once. *)
FdsOfClosed == {fd \in Fds : \A c \in Conns : fdOf[c] = fd => isClosed[c]}
FreeFds == {fd \in Fds : \A c \in Conns : Live(c) => fdOf[c] # fd}

(* An RtpConnection also lives in the handlers that stream to it.          *)
RtpLive(c) == Live(c) \/ \E s \in Sessions : <<s, c>> \in handlers

Init ==
  /\ fdOf = [c \in Conns |-> NoFd]
  /\ connections = [fd \in Fds |-> NoConn]
  /\ isClosed = [c \in Conns |-> FALSE]
  /\ connMutex = [c \in Conns |-> NoThread]
  /\ sessionId = [c \in Conns |-> NoSession]
  /\ rtp = [c \in Conns |-> NoRtp]
  /\ clients = [s \in Sessions |-> [fd \in Fds |-> NoConn]]
  /\ mapMutex = [s \in Sessions |-> NoThread]
  /\ handlers = {}
  /\ running = {}
  /\ pc = [t \in Threads |-> IF t = Loop THEN "idle" ELSE "none"]
  /\ serving = NoConn
  /\ target = [t \in Threads |-> NoSession]
  /\ triggers = <<>>
  /\ stop = "run"
  /\ swept = {}
  /\ terminated = FALSE

-----------------------------------------------------------------------------
(* The event loop between two handlers.                                    *)

(* The acceptor's callback: a new connection on a descriptor no living     *)
(* connection has is registered, unless the registry knows the descriptor  *)
(* already (emplace).  Stop holds TcpServer::mutex_ while it disconnects.  *)
Accept(c) ==
  /\ pc[Loop] = "idle" /\ stop \in {"run", "closing"}
  /\ fdOf[c] = NoFd
  /\ \E fd \in FreeFds :
       /\ fdOf' = [fdOf EXCEPT ![c] = fd]
       /\ connections' = [connections EXCEPT ![fd] = IF @ = NoConn THEN c ELSE @]
  /\ UNCHANGED <<triggers, isClosed, connMutex, sessionId, rtp, sessionVars, pc,
                 serving, target, stopVars, terminated>>

(* An event on a channel that Close has not removed.                       *)
HandleEvent(c) ==
  /\ pc[Loop] = "idle" /\ fdOf[c] # NoFd /\ ~isClosed[c]
  /\ serving' = c
  /\ \E handler \in {"read", "flush", "error"} : pc' = [pc EXCEPT ![Loop] = handler]
  /\ UNCHANGED <<netVars, isClosed, connMutex, sessionId, rtp, sessionVars, target,
                 stopVars, terminated>>

(* A queued callback: RemoveConnection(fd), or Close without the mutex.    *)
HandleTriggerEvent ==
  /\ pc[Loop] = "idle" /\ triggers # <<>>
  /\ triggers' = Tail(triggers)
  /\ \/ /\ Head(triggers).kind = "remove"
        /\ stop # "disconnecting"
        /\ connections' = [connections EXCEPT ![Head(triggers).fd] = NoConn]
        /\ UNCHANGED <<pc, serving>>
     \/ /\ Head(triggers).kind = "close"
        /\ serving' = Head(triggers).conn
        /\ pc' = [pc EXCEPT ![Loop] = "close"]
        /\ UNCHANGED connections
  /\ UNCHANGED <<fdOf, isClosed, connMutex, sessionId, rtp, sessionVars, target, stopVars,
                 terminated>>

(* HandleRead: under the mutex, either the peer has closed (Close with the *)
(* mutex held) or there is a request, handled after the mutex is released. *)
HandleRead ==
  LET c == serving IN
  /\ pc[Loop] = "read" /\ connMutex[c] = NoThread
  /\ \/ isClosed[c] /\ Goto(Loop, "idle") /\ UNCHANGED connMutex
     \/ ~isClosed[c] /\ Goto(Loop, "request") /\ UNCHANGED connMutex
     \/ ~isClosed[c] /\ Goto(Loop, "close") /\ connMutex' = [connMutex EXCEPT ![c] = Loop]
  /\ UNCHANGED <<netVars, isClosed, sessionId, rtp, sessionVars, target, stopVars,
                 terminated>>

(* HandleClose, HandleError, and the end of HandleRead after a request     *)
(* that does not parse.                                                    *)
HandleError ==
  /\ pc[Loop] = "error" /\ connMutex[serving] = NoThread
  /\ connMutex' = [connMutex EXCEPT ![serving] = Loop]
  /\ Goto(Loop, "close")
  /\ UNCHANGED <<netVars, isClosed, sessionId, rtp, sessionVars, target, stopVars,
                 terminated>>

-----------------------------------------------------------------------------
(* RtspConnection::HandleRtspRequest: one action per command.              *)
Requesting == pc[Loop] = "request"
requestUnchanged == <<netVars, isClosed, connMutex, sessionVars, stopVars, terminated>>

(* OPTIONS, or an incomplete request (no reply), or one that is malformed. *)
OtherRequest ==
  /\ Requesting
  /\ \E next \in {"send", "idle", "error"} : Goto(Loop, next)
  /\ UNCHANGED <<requestUnchanged, sessionId, rtp, target>>

(* DESCRIBE of a session, or of an address no session has (s = NoSession). *)
Describe(s) ==
  LET c == serving IN
  /\ Requesting
  /\ s \in Targets[c] \cup {NoSession}
  /\ rtp' = [rtp EXCEPT ![c].made = TRUE]
  /\ IF s = NoSession
     THEN Goto(Loop, "send") /\ UNCHANGED <<sessionId, target>>
     ELSE /\ sessionId' = [sessionId EXCEPT ![c] = s]
          /\ target' = [target EXCEPT ![Loop] = s]
          /\ Goto(Loop, "addClient")
  /\ UNCHANGED requestUnchanged

Unknown(s, fd) == clients[s][fd] = NoConn

(* MediaSession::AddClient and the connected callback: a descriptor that   *)
(* has no entry gets one; then entries of dead connections are purged and  *)
(* the client gets a handler and its thread.                               *)
AddClient ==
  LET s == target[Loop]
      c == serving
  IN
  /\ pc[Loop] = "addClient" /\ mapMutex[s] = NoThread
  /\ IF Unknown(s, fdOf[c])
     THEN /\ clients' = [clients EXCEPT ![s] = [fd \in Fds |->
                 CASE fd = fdOf[c]             -> c
                   [] fd # fdOf[c] /\ @[fd] # NoConn /\ Live(@[fd]) -> @[fd]
                   [] OTHER                    -> NoConn]]
          /\ handlers' = handlers \cup {<<s, c>>}
          /\ running' = running \cup {<<s, c>>}
          /\ pc' = [pc EXCEPT ![Loop] = "send", ![<<s, c>>] = "open"]
     ELSE pc' = [pc EXCEPT ![Loop] = "send"] /\ UNCHANGED <<clients, handlers, running>>
  /\ target' = [target EXCEPT ![Loop] = NoSession]
  /\ UNCHANGED <<netVars, isClosed, connMutex, sessionId, rtp, mapMutex, serving, stopVars,
                 terminated>>

Supported(c) == Transports[c]

(* SETUP: 500 without a session or when no port can be bound.              *)
Setup ==
  LET c == serving IN
  /\ Requesting
  /\ \/ UNCHANGED rtp
     \/ /\ sessionId[c] # NoSession
        /\ \E mode \in Supported(c) :
             rtp' = [rtp EXCEPT ![c].mode = mode, ![c].setup = TRUE]
  /\ Goto(Loop, "send")
  /\ UNCHANGED <<requestUnchanged, sessionId, target>>

(* PLAY, TEARDOWN and GET_PARAMETER get no answer before a DESCRIBE.       *)
AnswerIfDescribed(c) == Goto(Loop, IF rtp[c].made THEN "send" ELSE "idle")

Play ==
  LET c == serving IN
  /\ Requesting
  /\ rtp' = [rtp EXCEPT ![c].play = @ \/ rtp[c].setup]
  /\ AnswerIfDescribed(c)
  /\ UNCHANGED <<requestUnchanged, sessionId, target>>

(* TEARDOWN marks the RtpConnection closed for good; the TCP connection    *)
(* stays open and the client stays registered.                             *)
Teardown ==
  LET c == serving IN
  /\ Requesting
  /\ rtp' = [rtp EXCEPT ![c].closed = @ \/ rtp[c].made,
                        ![c].play   = @ /\ rtp[c].closed]
  /\ AnswerIfDescribed(c)
  /\ UNCHANGED <<requestUnchanged, sessionId, target>>

GetParameter ==
  /\ Requesting
  /\ AnswerIfDescribed(serving)
  /\ UNCHANGED <<requestUnchanged, sessionId, rtp, target>>

-----------------------------------------------------------------------------
(* TcpConnection::Send, by the loop (replies) or by a worker (RTP over     *)
(* TCP).  The write buffer itself is module TcpConnection's subject; here  *)
(* a flush sends, is skipped because try_lock fails, or finds the socket   *)
(* broken and closes with the mutex held.                                  *)
SendCheck(t) ==
  /\ pc[t] = "send"
  /\ Goto(t, IF isClosed[ConnOf(t)] THEN Resume(t) ELSE "sendLock")
  /\ UNCHANGED <<netVars, isClosed, connMutex, sessionId, rtp, sessionVars, target,
                 stopVars, terminated>>

SendAppend(t) ==
  /\ pc[t] = "sendLock" /\ connMutex[ConnOf(t)] = NoThread
  /\ Goto(t, "flush")
  /\ UNCHANGED <<netVars, isClosed, connMutex, sessionId, rtp, sessionVars, target,
                 stopVars, terminated>>

HandleWrite(t) ==
  LET c == ConnOf(t) IN
  /\ pc[t] = "flush"
  /\ \/ Goto(t, Resume(t)) /\ UNCHANGED connMutex
     \/ /\ ~isClosed[c] /\ connMutex[c] = NoThread
        /\ connMutex' = [connMutex EXCEPT ![c] = t]
        /\ Goto(t, "close")
  /\ UNCHANGED <<netVars, isClosed, sessionId, rtp, sessionVars, target, stopVars,
                 terminated>>

-----------------------------------------------------------------------------
(* TcpConnection::Close, by any thread: test, then set is_closed_ and      *)
(* remove the channel, then close_cb_ (RtspConnection::OnClose), then      *)
(* disconnect_cb_.                                                         *)
Unlock(c, t) == connMutex' = [connMutex EXCEPT ![c] = IF @ = t THEN NoThread ELSE @]

CloseNeeded(c) == ~isClosed[c]

CloseTest(t) ==
  LET c == ConnOf(t) IN
  /\ pc[t] = "close"
  /\ IF CloseNeeded(c)
     THEN Goto(t, "closing") /\ UNCHANGED connMutex
     ELSE Unlock(c, t) /\ Goto(t, Resume(t))
  /\ UNCHANGED <<netVars, isClosed, sessionId, rtp, sessionVars, target, stopVars,
                 terminated>>

CloseMark(t) ==
  LET c == ConnOf(t) IN
  /\ pc[t] = "closing"
  /\ isClosed' = [isClosed EXCEPT ![c] = TRUE]
  /\ target' = [target EXCEPT ![t] = sessionId[c]]
  /\ Goto(t, IF sessionId[c] = NoSession THEN "disconnect" ELSE "removeClient")
  /\ UNCHANGED <<netVars, connMutex, sessionId, rtp, sessionVars, stopVars, terminated>>

(* MediaSession::RemoveClient: the connection registered under this        *)
(* descriptor; its handler, if it has one, is told to stop.                *)
Registered(t) == clients[target[t]][fdOf[ConnOf(t)]]
Victim(t) == <<target[t], Registered(t)>>

Never(t) == FALSE                       \* a slip: the thread is left to itself
HasHandler(t) ==
  Registered(t) # NoConn /\ RtpLive(Registered(t)) /\ Victim(t) \in handlers
TellToStop(t) == running \ {Victim(t)}
KeepEntry(t) == clients                 \* a slip
EraseEntry(t) == [clients EXCEPT ![target[t]][fdOf[ConnOf(t)]] = NoConn]

RemoveClient(t) ==
  LET s == target[t] IN
  /\ pc[t] = "removeClient" /\ mapMutex[s] = NoThread
  /\ IF HasHandler(t)
     THEN /\ running' = TellToStop(t)
          /\ mapMutex' = [mapMutex EXCEPT ![s] = t]
          /\ Goto(t, "join")
          /\ UNCHANGED clients
     ELSE /\ clients' = EraseEntry(t)
          /\ Goto(t, "disconnect")
          /\ UNCHANGED <<running, mapMutex>>
  /\ UNCHANGED <<netVars, isClosed, connMutex, sessionId, rtp, handlers, target,
                 stopVars, terminated>>

(* handler->thread.join(), delete and erase.                               *)
Whenever(w) == TRUE                     \* a slip: delete without a join
Ended(w) == pc[w] \in EndPcs

JoinHandler(t) ==
  /\ pc[t] = "join" /\ Victim(t) # t
  /\ Ended(Victim(t))
  /\ handlers' = handlers \ {Victim(t)}
  /\ clients' = EraseEntry(t)
  /\ mapMutex' = [mapMutex EXCEPT ![target[t]] = NoThread]
  /\ Goto(t, "disconnect")
  /\ UNCHANGED <<netVars, isClosed, connMutex, sessionId, rtp, running, target,
                 stopVars, terminated>>

(* A worker that joins itself: std::thread::join throws and nobody catches.*)
JoinSelf(t) ==
  /\ pc[t] = "join" /\ Victim(t) = t
  /\ terminated' = TRUE
  /\ UNCHANGED <<netVars, isClosed, connMutex, sessionId, rtp, sessionVars, pc, serving, target,
                 stopVars>>

QueueNothing(c) == triggers             \* a slip
QueueRemoval(c) == Append(triggers, RemoveEvent(fdOf[c]))

(* disconnect_cb_ queues RemoveConnection; the caller's lock is released.  *)
Disconnected(t) ==
  LET c == ConnOf(t) IN
  /\ pc[t] = "disconnect"
  /\ triggers' = QueueRemoval(c)
  /\ target' = [target EXCEPT ![t] = NoSession]
  /\ Unlock(c, t)
  /\ Goto(t, Resume(t))
  /\ UNCHANGED <<fdOf, connections, isClosed, sessionId, rtp, sessionVars, stopVars,
                 terminated>>

-----------------------------------------------------------------------------
(* OnDemandSession::onDemandLoop.                                          *)
workerUnchanged == <<netVars, isClosed, connMutex, sessionId, sessionVars, target,
                     stopVars, terminated>>

OpenVideo(w) ==
  /\ pc[w] = "open"
  /\ \E next \in {"check", "done"} : Goto(w, next)
  /\ UNCHANGED <<workerUnchanged, rtp>>

CheckRunning(w) ==
  /\ pc[w] = "check"
  /\ Goto(w, IF w \in running THEN "frame" ELSE "done")
  /\ UNCHANGED <<workerUnchanged, rtp>>

(* The next frame, or the end of the file.                                 *)
EndOfFile(w) ==
  /\ pc[w] = "frame"
  /\ Goto(w, "done")
  /\ UNCHANGED <<workerUnchanged, rtp>>

(* RtpConnection::SendRtpPacket: refused unless the client plays; over UDP *)
(* a failed sendto tears the RtpConnection down; over TCP the connection   *)
(* must still exist.                                                       *)
Playing(c) == rtp[c].play /\ ~rtp[c].closed
OverTcp(c) == rtp[c].mode = "tcp"

SendFrame(w) ==
  LET c == w[2] IN
  /\ pc[w] = "frame"
  /\ \/ ~Playing(c) /\ Goto(w, "refused") /\ UNCHANGED rtp
     \/ Playing(c) /\ ~OverTcp(c) /\ Goto(w, "check") /\ UNCHANGED rtp
     \/ /\ Playing(c) /\ ~OverTcp(c)
        /\ rtp' = [rtp EXCEPT ![c].closed = TRUE, ![c].play = FALSE]
        /\ Goto(w, "refused")
     \/ /\ Playing(c) /\ OverTcp(c) /\ UNCHANGED rtp
        /\ Goto(w, IF Live(c) THEN "send" ELSE "refused")
  /\ UNCHANGED workerUnchanged

-----------------------------------------------------------------------------
(* TcpServer::Stop, by the main thread: Disconnect of every connection     *)
(* with TcpServer::mutex_ held, the acceptor closed, the registry polled.  *)
stopUnchanged == <<fdOf, connections, isClosed, connMutex, sessionId, rtp, sessionVars, pc,
                   serving, target, terminated>>

Stop ==
  /\ Stopping /\ stop = "run"
  /\ stop' = "disconnecting"
  /\ UNCHANGED <<stopUnchanged, triggers, swept>>

Unswept == {c \in Conns : c \notin swept /\ \E fd \in Fds : connections[fd] = c}

StopEvent(c) == CloseEvent(c)

StopDisconnect(c) ==
  /\ stop = "disconnecting" /\ c \in Unswept
  /\ connMutex[c] = NoThread
  /\ triggers' = Append(triggers, StopEvent(c))
  /\ swept' = swept \cup {c}
  /\ UNCHANGED <<stopUnchanged, stop>>

StopStep ==
  /\ \/ stop = "disconnecting" /\ Unswept = {} /\ stop' = "closing"
     \/ stop = "closing" /\ stop' = "waiting"
     \/ stop = "waiting" /\ (\A fd \in Fds : connections[fd] = NoConn) /\ stop' = "stopped"
  /\ UNCHANGED <<stopUnchanged, triggers, swept>>

-----------------------------------------------------------------------------
Request ==
  \/ OtherRequest \/ Setup \/ Play \/ Teardown \/ GetParameter
  \/ \E s \in Sessions \cup {NoSession} : Describe(s)

LoopStep == HandleRead \/ HandleError \/ Request \/ AddClient

ConnStep(t) ==
  \/ SendCheck(t) \/ SendAppend(t) \/ HandleWrite(t)
  \/ CloseTest(t) \/ CloseMark(t) \/ RemoveClient(t) \/ JoinHandler(t) \/ JoinSelf(t)
  \/ Disconnected(t)

WorkerStep(w) == OpenVideo(w) \/ CheckRunning(w) \/ EndOfFile(w) \/ SendFrame(w)

Next ==
  /\ ~terminated
  /\ \/ \E c \in Conns : Accept(c) \/ HandleEvent(c)
     \/ HandleTriggerEvent
     \/ LoopStep
     \/ \E t \in Threads : ConnStep(t)
     \/ \E w \in Workers : WorkerStep(w)
     \/ Stop \/ StopStep \/ \E c \in Conns : StopDisconnect(c)

(* A thread that can take its next step takes it; the loop runs the queued *)
(* callbacks on every turn, however busy the channels are.                 *)
Fairness ==
  /\ WF_vars(LoopStep /\ ~terminated)
  /\ \A t \in Threads : WF_vars(ConnStep(t) /\ ~terminated)
  /\ \A w \in Workers : WF_vars(WorkerStep(w) /\ ~terminated)
  /\ SF_vars(HandleTriggerEvent /\ ~terminated)
  /\ WF_vars(StopStep /\ ~terminated)
  /\ \A c \in Conns : WF_vars(StopDisconnect(c) /\ ~terminated)

Spec == Init /\ [][Next]_vars
FairSpec == Spec /\ Fairness
-----------------------------------------------------------------------------
Accepted(c) == fdOf[c] # NoFd
Open(c) == Accepted(c) /\ ~isClosed[c]

(* The registry keeps a connection, and so its object and its descriptor,  *)
(* until Close has marked it: a RemoveConnection queued for an earlier     *)
(* connection on the same descriptor never hits a later one                *)
(* (TcpServer.cpp 21-27, where only the descriptor number is captured).    *)
OpenStaysRegistered == \A c \in Conns : Open(c) => connections[fdOf[c]] = c

(* What leaves the registry is a connection that has been closed.          *)
RemovesOnlyClosed ==
  [][\A fd \in Fds : connections[fd] # NoConn /\ connections'[fd] # connections[fd]
                        => isClosed[connections[fd]]]_vars

(* onDemandLoop works on a handler record that has not been deleted        *)
(* (OnDemandSession.cc 61-63: the join comes before the delete).           *)
Alive(w) == pc[w] \notin EndPcs \cup {"none"}
HandlerOutlivesThread == \A w \in Workers : Alive(w) => w \in handlers

(* A client that described a session has an entry of its own there and a   *)
(* handler, also when its descriptor number was used before: AddClient     *)
(* does nothing when it finds the number taken (MediaSession.cpp 249).     *)
Adding(c) == pc[Loop] = "addClient" /\ serving = c
DescribedHasHandler ==
  \A c \in Conns, s \in Sessions :
    Open(c) /\ sessionId[c] = s /\ ~Adding(c) => clients[s][fdOf[c]] = c /\ <<s, c>> \in handlers

(* A client that set up and played an on-demand session is not left with a *)
(* thread that gave up because the client was not playing yet.             *)
PlayedIsStreamed ==
  \A w \in handlers : Open(w[2]) /\ pc[w] = "refused" => ~Playing(w[2])

(* No Close is forgotten: a connection that Stop has swept is closed, or   *)
(* its Close is queued or has begun; one that is closed is unregistered,   *)
(* or its RemoveConnection is queued or will be by the thread that closes  *)
(* it.  (TcpServer::Stop, TcpConnection::Close, disconnect_cb_)            *)
Queued(e) == \E i \in 1..Len(triggers) : triggers[i] = e
Inside(c, labels) == \E t \in Threads : ConnOf(t) = c /\ pc[t] \in labels
NoCloseForgotten ==
  \A c \in Conns :
    /\ c \in swept /\ Open(c) => Queued(CloseEvent(c)) \/ Inside(c, {"close", "closing"})
    /\ isClosed[c] /\ connections[fdOf[c]] = c
         => Queued(RemoveEvent(fdOf[c])) \/ Inside(c, {"removeClient", "join", "disconnect"})

(* A closed connection is released: its thread ends, the join returns, the *)
(* queued RemoveConnection runs.                                           *)
CloseCompletes == \A c \in Conns : (Accepted(c) /\ isClosed[c]) ~> Gone(c)

(* Stop waits only for connections its sweep did not see, those accepted   *)
(* between the sweep and the acceptor's Close (TcpServer.cpp 67-69).       *)
StopOnlyWaitsForUnswept ==
  (stop # "run") ~> (stop = "stopped" \/ \E c \in Conns \ swept : Open(c))

-----------------------------------------------------------------------------
(* What all this promises, seen from outside: StreamRegistry.              *)
Phase(c) == CASE ~Accepted(c) -> "new"
              [] Open(c)      -> "open"
              [] Accepted(c) /\ isClosed[c] /\ Live(c) -> "closed"
              [] OTHER        -> "gone"
Owner(fd) == LET holders == {c \in Conns : Live(c) /\ fdOf[c] = fd}
             IN  IF holders = {} THEN NoConn ELSE CHOOSE c \in holders : TRUE
Streaming == {w \in Workers : Alive(w)}

Registry == INSTANCE StreamRegistry WITH
  phase <- [c \in Conns |-> Phase(c)],
  owner <- [fd \in Fds |-> Owner(fd)],
  current <- sessionId,
  streams <- Streaming

(* Behind the locks, the trigger queue and the threads, the server is the  *)
(* simple registry of StreamRegistry.                                      *)
RegistrySpec == Registry!Spec
=============================================================================
