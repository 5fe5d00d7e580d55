----------------------------- MODULE RtspSession ----------------------------
(***************************************************************************)
(* One RTSP session from both ends: the client's window (MainWindow, whose *)
(* calls wait for each answer) with its receiver thread (StreamingWorker), *)
(* and the server's RtspRequest parser and RtspConnection handlers.  TCP   *)
(* may deliver a request or an answer in pieces.  A live session is sent   *)
(* by multicast, all others over UDP to the port that SETUP names.         *)
(***************************************************************************)
EXTENDS Naturals, Sequences

CONSTANTS
  Conns,          \* the server's RTSP connections, used again after a close
  Live,           \* the sessions that have started multicast
  OnDemand,       \* the other sessions
  MulticastPort,  \* the port of each live session
  ClientPorts,    \* the ports the client draws for unicast
  ServerPorts,    \* the ports the server draws for unicast
  CSeqs,          \* how many values rtsp_cseq_ctr has, 2^16 in the code
  NoConn, NoUrl, NoReceiver

Sessions == Live \cup OnDemand

ASSUME SessionAssumption ==
  /\ Sessions # {} /\ Live \cap OnDemand = {}
  /\ MulticastPort \in [Live -> Nat]
  /\ ClientPorts \subseteq Nat \ {0} /\ ServerPorts \subseteq Nat
  /\ CSeqs \in Nat \ {0, 1}
  /\ NoConn \notin Conns /\ NoUrl \notin Sessions
  /\ "server" \notin Sessions

VARIABLES
  gui,        \* where the window's thread is
  after,      \* what follows the stop under way: nothing, the start of a
              \* double click, or forgetting the url of a failed start
  awaiting,   \* the method whose request was sent last
  url,        \* rtsp_url
  cseq,       \* rtsp_cseq_ctr
  client,     \* the connection of rtsp_client
  settings,   \* what StreamingWorker has been told by the answers
  thread,     \* the receiver's QThread
  receiver,   \* mRtpClient
  peerOpen,   \* the connections whose client's end is open
  up, down,   \* the two byte streams of a connection, as lines and answers
  srv         \* the server's end: parser, RtspConnection and RtpConnection

guiVars == <<gui, after, awaiting, url, cseq, client>>
workerVars == <<settings, thread, receiver>>
vars == <<guiVars, workerVars, peerOpen, up, down, srv>>

Methods == {"OPTIONS", "DESCRIBE", "SETUP", "PLAY", "TEARDOWN"}
Ports == {MulticastPort[s] : s \in Live} \cup ClientPorts \cup ServerPorts \cup {0}
Hosts == Live \cup {"server", "none"}

Request == [method : Methods, cseq : 0..(CSeqs - 1), url : Sessions, multicast : BOOLEAN, port : Ports]
(* The lines of a request; a line knows the request it belongs to.         *)
LinesOf(m) ==
  CASE m = "OPTIONS"  -> <<"request", "CSeq", "agent", "end">>
    [] m = "DESCRIBE" -> <<"request", "CSeq", "agent", "Accept", "end">>
    [] m = "SETUP"    -> <<"request", "CSeq", "agent", "Transport", "end">>
    [] m = "PLAY"     -> <<"request", "CSeq", "agent", "Session", "Range", "end">>
    [] m = "TEARDOWN" -> <<"request", "CSeq", "agent", "Session", "end">>
LineNames == {"request", "CSeq", "agent", "Accept", "Transport", "Session", "Range", "end"}
Line == [name : LineNames, of : Request]

(* What the client reads of an answer; the second half of an answer that   *)
(* was read in two pieces is not a whole one.                              *)
Answer == [method : Methods, cseq : 0..(CSeqs - 1), ok : BOOLEAN, whole : BOOLEAN,
           multicast : BOOLEAN, ip : Hosts, port : Ports, serverPort : Ports]

Settings == [multicast : BOOLEAN, ip : Hosts, serverPort : Ports, clientPort : Ports]
(* Where packets go, or where the receiver takes them from.                *)
Endpoint == [multicast : BOOLEAN, ip : Hosts, port : Ports, serverPort : Ports]
Rtp == [made : BOOLEAN, setup : BOOLEAN, to : Endpoint, play : BOOLEAN, closed : BOOLEAN]
Server == [open : BOOLEAN, session : Sessions \cup {NoUrl}, state : {"line", "headers"},
           request : Request, gotCSeq : BOOLEAN, seenCSeq : 0..(CSeqs - 1), rtp : Rtp]

Nowhere == [multicast |-> FALSE, ip |-> "none", port |-> 0, serverPort |-> 0]
NoRtp == [made |-> FALSE, setup |-> FALSE, to |-> Nowhere, play |-> FALSE, closed |-> FALSE]
NoRequest == [method |-> "OPTIONS", cseq |-> 0, url |-> CHOOSE s \in Sessions : TRUE,
              multicast |-> FALSE, port |-> 0]
(* A new RtspConnection.                                                   *)
NewServer(isOpen) == [open |-> isOpen, session |-> NoUrl, state |-> "line", request |-> NoRequest,
                      gotCSeq |-> FALSE, seenCSeq |-> 0, rtp |-> NoRtp]

TypeOK ==
  /\ gui \in {"idle", "start", "connect", "await", "worker", "stop", "stopWorker", "end"} \cup Methods
  /\ after \in {"idle", "start", "forget"} /\ awaiting \in Methods
  /\ url \in Sessions \cup {NoUrl}
  /\ cseq \in 0..(CSeqs - 1)
  /\ client \in Conns \cup {NoConn}
  /\ settings \in Settings
  /\ thread \in {"off", "running", "terminating"}
  /\ receiver \in Endpoint \cup {NoReceiver}
  /\ peerOpen \subseteq Conns
  /\ up \in [Conns -> Seq(Line)] /\ down \in [Conns -> Seq(Answer)]
  /\ srv \in [Conns -> Server]

Init ==
  /\ gui = "idle" /\ after = "idle" /\ awaiting = "OPTIONS"
  /\ url = NoUrl /\ cseq = 0 /\ client = NoConn
  /\ settings = [multicast |-> TRUE, ip |-> "none", serverPort |-> 0, clientPort |-> 0]
  /\ thread = "off" /\ receiver = NoReceiver
  /\ peerOpen = {}
  /\ up = [c \in Conns |-> <<>>] /\ down = [c \in Conns |-> <<>>]
  /\ srv = [c \in Conns |-> NewServer(FALSE)]

-----------------------------------------------------------------------------
(* The client's window.                                                    *)
IsRunning == thread # "off"

(* StreamingWorker::stop: the thread ends some time after terminate().     *)
StopWorker ==
  IF IsRunning THEN thread' = "terminating" /\ receiver' = NoReceiver
               ELSE UNCHANGED <<thread, receiver>>

OpenClicked ==
  /\ gui = "idle"
  /\ gui' = "start" /\ after' = "idle"
  /\ UNCHANGED <<awaiting, url, cseq, client, workerVars, peerOpen, up, down, srv>>

CloseClicked ==
  /\ gui = "idle"
  /\ gui' = "stop" /\ after' = "idle"
  /\ UNCHANGED <<awaiting, url, cseq, client, workerVars, peerOpen, up, down, srv>>

(* A double click on a stream of the list.                                 *)
StreamClicked(s) ==
  /\ gui = "idle" /\ (IsRunning => s # url)
  /\ StopWorker
  /\ url' = s /\ gui' = "stop" /\ after' = "start"
  /\ UNCHANGED <<awaiting, cseq, client, settings, peerOpen, up, down, srv>>

(* parseRtspUrl throws.                                                    *)
BadUrl == url = NoUrl
(* startRtspStream up to parseRtspUrl.                                     *)
Start ==
  /\ gui = "start"
  /\ gui' = IF IsRunning \/ BadUrl THEN "idle" ELSE "connect"
  /\ UNCHANGED <<after, awaiting, url, cseq, client, workerVars, peerOpen, up, down, srv>>

(* initRtspClient.  An rtsp_client that exists already gives up its socket *)
(* and connects anew.                                                      *)
Abandon ==
  /\ gui = "connect" /\ client # NoConn
  /\ client' = NoConn /\ peerOpen' = peerOpen \ {client}
  /\ down' = [down EXCEPT ![client] = <<>>]
  /\ UNCHANGED <<gui, after, awaiting, url, cseq, workerVars, up, srv>>

Connect(c) ==
  /\ gui = "connect" /\ client = NoConn /\ ~srv[c].open
  /\ client' = c /\ gui' = "OPTIONS"
  /\ peerOpen' = peerOpen \cup {c}
  /\ srv' = [srv EXCEPT ![c] = NewServer(TRUE)]
  /\ up' = [up EXCEPT ![c] = <<>>] /\ down' = [down EXCEPT ![c] = <<>>]
  /\ UNCHANGED <<after, awaiting, url, cseq, workerVars>>

ConnectFails ==
  /\ gui = "connect"
  /\ gui' = "stop" /\ after' = "idle"
  /\ UNCHANGED <<awaiting, url, cseq, client, workerVars, peerOpen, up, down, srv>>

(* What rtspOptions, rtspDescribe, rtspSetup, rtspPlay and rtspTeardown    *)
(* send.  SETUP asks for what the answer to DESCRIBE has set.              *)
RequestFor(m, n) ==
  [method |-> m, cseq |-> n, url |-> url, multicast |-> m = "SETUP" /\ settings.multicast,
   port |-> CASE m # "SETUP" -> 0
              [] settings.multicast -> settings.serverPort
              [] OTHER -> settings.clientPort]

NextCSeq == (cseq + 1) % CSeqs

Send(m) ==
  /\ gui = m /\ client # NoConn
  /\ cseq' = NextCSeq
  /\ awaiting' = m /\ gui' = "await"
  /\ up' = [up EXCEPT ![client] = @ \o
              [i \in 1..Len(LinesOf(m)) |-> [name |-> LinesOf(m)[i], of |-> RequestFor(m, cseq')]]]
  /\ UNCHANGED <<after, url, client, workerVars, peerOpen, down, srv>>

(* An exception in connectToRtspServer ends in stopRtspStream, one in      *)
(* rtspTeardown in the stop of the worker.                                 *)
Thrown(m) == IF m = "TEARDOWN" THEN "stopWorker" ELSE "stop"
AfterThrown(m) == IF m = "TEARDOWN" THEN after ELSE "forget"

Done(m) == CASE m = "OPTIONS" -> "DESCRIBE" [] m = "DESCRIBE" -> "SETUP" [] m = "SETUP" -> "worker"
             [] m = "PLAY" -> "idle" [] m = "TEARDOWN" -> "stopWorker"

(* What the answer to DESCRIBE tells the worker, whose port is drawn here  *)
(* when the answer names none.                                             *)
Described(a) ==
  IF a.port # 0
  THEN settings' = [settings EXCEPT !.multicast = a.multicast, !.ip = a.ip, !.serverPort = a.port]
  ELSE \E p \in ClientPorts :
         settings' = [settings EXCEPT !.multicast = a.multicast, !.ip = a.ip, !.clientPort = p]
(* What the answer to SETUP tells it.                                      *)
SetUp(a) ==
  settings' = IF a.multicast
              THEN [settings EXCEPT !.multicast = TRUE, !.ip = a.ip, !.serverPort = a.port]
              ELSE [multicast |-> FALSE, ip |-> "server", clientPort |-> a.port, serverPort |-> a.serverPort]
Learn(a) ==
  CASE a.method = "DESCRIBE" -> Described(a)
    [] a.method = "SETUP"    -> SetUp(a)
    [] OTHER                 -> UNCHANGED settings

(* getResponseLines and parseRtspResponseFirstTwoLines.                    *)
Accepted(a) == a.whole /\ a.ok /\ a.cseq = cseq

Receive ==
  /\ gui = "await" /\ down[client] # <<>>
  /\ LET a == Head(down[client]) IN
       IF Accepted(a)
       THEN gui' = Done(awaiting) /\ Learn(a) /\ after' = after
       ELSE gui' = Thrown(awaiting) /\ after' = AfterThrown(awaiting) /\ settings' = settings
  /\ down' = [down EXCEPT ![client] = Tail(@)]
  /\ UNCHANGED <<awaiting, url, cseq, client, thread, receiver, peerOpen, up, srv>>

(* The first part of an answer is taken for the answer.                    *)
ReceivePart ==
  /\ gui = "await" /\ down[client] # <<>> /\ Head(down[client]).whole
  /\ down' = [down EXCEPT ![client][1].whole = FALSE]
  /\ gui' = Thrown(awaiting) /\ after' = AfterThrown(awaiting)
  /\ UNCHANGED <<awaiting, url, cseq, client, workerVars, peerOpen, up, srv>>

(* recv reports that the server has closed.                                *)
ReceiveEnd ==
  /\ gui = "await" /\ down[client] = <<>> /\ ~srv[client].open
  /\ gui' = Thrown(awaiting) /\ after' = AfterThrown(awaiting)
  /\ UNCHANGED <<awaiting, url, cseq, client, workerVars, peerOpen, up, down, srv>>

(* StreamingWorker::start and initRtpClient.                               *)
Listening == [multicast |-> settings.multicast, ip |-> settings.ip,
              port |-> IF settings.multicast THEN settings.serverPort ELSE settings.clientPort,
              serverPort |-> settings.serverPort]
MayListen == settings.ip # "none" /\ settings.serverPort # 0 /\ Listening.port # 0
WorkerStarts ==
  /\ gui = "worker"
  /\ \/ /\ MayListen
        /\ receiver' = Listening
        /\ thread' = "running" /\ gui' = "PLAY" /\ after' = after
     \/ gui' = "stop" /\ after' = "forget" /\ UNCHANGED <<thread, receiver>>
  /\ UNCHANGED <<awaiting, url, cseq, client, settings, peerOpen, up, down, srv>>

(* stopRtspStream.                                                         *)
Stop ==
  /\ gui = "stop"
  /\ gui' = CASE ~IsRunning -> "end" [] IsRunning /\ client = NoConn -> "stopWorker" [] OTHER -> "TEARDOWN"
  /\ UNCHANGED <<after, awaiting, url, cseq, client, workerVars, peerOpen, up, down, srv>>

StopStops ==
  /\ gui = "stopWorker"
  /\ StopWorker
  /\ gui' = "end"
  /\ UNCHANGED <<after, awaiting, url, cseq, client, settings, peerOpen, up, down, srv>>

StopEnds ==
  /\ gui = "end"
  /\ client' = NoConn /\ peerOpen' = peerOpen \ {client}
  /\ gui' = IF after = "start" THEN "start" ELSE "idle"
  /\ url' = IF after = "forget" THEN NoUrl ELSE url
  /\ after' = "idle"
  /\ down' = IF client = NoConn THEN down ELSE [down EXCEPT ![client] = <<>>]
  /\ UNCHANGED <<awaiting, cseq, workerVars, up, srv>>

(* The receiver's run() ends by itself, on an error, or is terminated.     *)
WorkerEnds ==
  /\ IsRunning
  /\ thread' = "off"
  /\ UNCHANGED <<guiVars, settings, receiver, peerOpen, up, down, srv>>

-----------------------------------------------------------------------------
(* The server.  Everything up to the last line end of what has been read   *)
(* is consumed by each OnRead, so the parser's state is all that is left.  *)

(* The lines of a piece that ParseHeadersLine looks at.                    *)
Names(piece) == {piece[i].name : i \in DOMAIN piece}
(* The line after which the method's state is kGotAll.                     *)
LastNeeded(m) ==
  CASE m = "DESCRIBE" -> "Accept" [] m = "SETUP" -> "Transport" [] m = "PLAY" -> "Session" [] OTHER -> "CSeq"
AtTheBlankLine(m, names) == "end" \in names /\ LastNeeded(m) \in names   \* a slip
GotAll(m, names) == m \in {"OPTIONS", "TEARDOWN"} \/ LastNeeded(m) \in names

(* ParseRequestLine and ParseHeadersLine on one piece: the parser after    *)
(* it, whether it is content, and whether a request is complete.           *)
ParseLine(s, piece) ==
  IF s.state = "line" /\ piece[1].name = "request"
  THEN [s EXCEPT !.state = "headers", !.request = piece[1].of]
  ELSE s
Rest(s, piece) == IF s.state = "line" THEN Tail(piece) ELSE piece
Unparsable(s, piece) == s.state = "line" /\ piece[1].name # "request"
ParseHeaders(s, rest) ==
  IF "CSeq" \in Names(rest) /\ ~s.gotCSeq   \* emplace keeps the first
  THEN [s EXCEPT !.gotCSeq = TRUE, !.seenCSeq = rest[1].of.cseq] ELSE s
NoCSeq(s, rest) == rest # <<>> /\ ~ParseHeaders(s, rest).gotCSeq
Complete(s, rest) == rest # <<>> /\ GotAll(s.request.method, Names(rest))

Reply(s, good) ==
  [method |-> s.request.method, cseq |-> s.seenCSeq, ok |-> good, whole |-> TRUE,
   multicast |-> FALSE, ip |-> "server", port |-> 0, serverPort |-> 0]

(* RtspRequest::Reset.                                                     *)
KeepHeaders(s) == [s EXCEPT !.state = "line"]   \* a slip
Reset(s) == [s EXCEPT !.state = "line", !.gotCSeq = FALSE]

(* The handlers: the connection and the answer after the request of s.     *)
HandleCmdOption(s) == {[to |-> s, reply |-> Reply(s, TRUE)]}

(* GetSdpMessage: the address and the port only of a multicast session.    *)
SdpMessage(s, v) ==
  IF v \in Live THEN [Reply(s, TRUE) EXCEPT !.multicast = TRUE, !.ip = v, !.port = MulticastPort[v]]
                ELSE Reply(s, TRUE)
HandleCmdDescribe(s) ==
  LET v == s.request.url IN
  {[to |-> [s EXCEPT !.rtp.made = TRUE, !.session = v],
    reply |-> SdpMessage(s, v)]}

SetupMulticastRes(s) ==
  [Reply(s, TRUE) EXCEPT !.multicast = TRUE, !.ip = s.session, !.port = MulticastPort[s.session]]
SetupMulticast(s) ==
  [to |-> [s EXCEPT !.rtp.setup = TRUE, !.rtp.to = [multicast |-> TRUE, ip |-> s.session,
             port |-> MulticastPort[s.session], serverPort |-> MulticastPort[s.session]]],
   reply |-> SetupMulticastRes(s)]
SwappedPorts(s, p) == [Reply(s, TRUE) EXCEPT !.port = p, !.serverPort = s.request.port]   \* a slip
SetupUdpRes(s, p) == [Reply(s, TRUE) EXCEPT !.port = s.request.port, !.serverPort = p]
SetupUdp(s, p) ==
  [to |-> [s EXCEPT !.rtp.setup = TRUE,
             !.rtp.to = [multicast |-> FALSE, ip |-> "server", port |-> s.request.port, serverPort |-> p]],
   reply |-> SetupUdpRes(s, p)]

(* Binding the sockets may fail; the other transport is not supported.     *)
HandleCmdSetup(s) ==
  {[to |-> s, reply |-> Reply(s, FALSE)]} \cup
  CASE s.session = NoUrl -> {}
    [] s.session \in Live /\ s.request.multicast ->
         {SetupMulticast(s)}
    [] s.session \in OnDemand /\ ~s.request.multicast -> {SetupUdp(s, p) : p \in ServerPorts}
    [] OTHER -> {}

HandleCmdPlay(s) ==
  IF s.rtp.made THEN {[to |-> [s EXCEPT !.rtp.play = s.rtp.setup], reply |-> Reply(s, TRUE)]} ELSE {}

HandleCmdTeardown(s) ==
  IF s.rtp.made
  THEN {[to |-> [s EXCEPT !.rtp.closed = TRUE, !.rtp.play = FALSE], reply |-> Reply(s, TRUE)]} ELSE {}

Handle(s) ==
  CASE s.request.method = "OPTIONS"  -> HandleCmdOption(s)
    [] s.request.method = "DESCRIBE" -> HandleCmdDescribe(s)
    [] s.request.method = "SETUP"    -> HandleCmdSetup(s)
    [] s.request.method = "PLAY"     -> HandleCmdPlay(s)
    [] s.request.method = "TEARDOWN" -> HandleCmdTeardown(s)

(* TcpConnection::Close and OnClose; nothing of a closed one is used again. *)
Closed == NewServer(FALSE)

(* HandleRead: recv returns the first n lines, which leave the buffer up   *)
(* to the last line end, then OnRead.                                      *)
Retrieved(c, n) == SubSeq(up[c], 1, n)
HandleRead(c, n) ==
  /\ srv[c].open /\ n \in 1..Len(up[c])
  /\ LET piece == Retrieved(c, n)
         rest == Rest(srv[c], piece)
         line == ParseLine(srv[c], piece)
         parsed == ParseHeaders(line, rest)
     IN IF Unparsable(srv[c], piece) \/ NoCSeq(line, rest)
        THEN srv' = [srv EXCEPT ![c] = Closed] /\ down' = down
        ELSE IF ~Complete(line, rest)
        THEN srv' = [srv EXCEPT ![c] = parsed] /\ down' = down
        ELSE \/ \E h \in Handle(parsed) :
                  /\ srv' = [srv EXCEPT ![c] = Reset(h.to)]
                  /\ down' = IF c \in peerOpen THEN [down EXCEPT ![c] = Append(@, h.reply)] ELSE down
             \/ /\ Handle(parsed) = {}
                /\ srv' = [srv EXCEPT ![c] = Reset(parsed)] /\ down' = down
  /\ up' = [up EXCEPT ![c] = SubSeq(@, n + 1, Len(@))]
  /\ UNCHANGED <<guiVars, workerVars, peerOpen>>

(* recv returns 0 once everything the client sent has been read.           *)
ReadEnd(c) ==
  /\ srv[c].open /\ c \notin peerOpen /\ up[c] = <<>>
  /\ srv' = [srv EXCEPT ![c] = Closed]
  /\ UNCHANGED <<guiVars, workerVars, peerOpen, up, down>>

-----------------------------------------------------------------------------
Window == Start \/ Abandon \/ (\E c \in Conns : Connect(c)) \/ ConnectFails \/ (\E m \in Methods : Send(m))
          \/ Receive \/ ReceivePart \/ ReceiveEnd \/ WorkerStarts \/ Stop \/ StopStops \/ StopEnds
Clicks == OpenClicked \/ CloseClicked \/ (\E s \in Sessions : StreamClicked(s))
ServerReads == \E c \in Conns : ReadEnd(c) \/ \E n \in 1..Len(up[c]) : HandleRead(c, n)

Next == Window \/ Clicks \/ WorkerEnds \/ ServerReads

Spec == Init /\ [][Next]_vars
FairSpec == Spec /\ WF_vars(Window) /\ WF_vars(ServerReads)

-----------------------------------------------------------------------------
(* A whole answer that the window finds is the answer to the request it    *)
(* waits for (rtsp_cseq_ctr, RtspRequest::GetCSeq, Reset): no request is   *)
(* answered twice, none with the number of an earlier one.                 *)
AnswersAreAwaited ==
  gui = "await" => \A i \in DOMAIN down[client] :
                      LET a == down[client][i] IN a.whole => a.method = awaiting /\ a.cseq = cseq

(* While a stream runs in an idle window the receiver's socket is the one  *)
(* the server sends to, in whichever mode the stream before it was: for as *)
(* long as the connection lives, PLAY and the ports of DESCRIBE and SETUP  *)
(* mean the same at both ends.                                             *)
PlayedReachesReceiver ==
  gui = "idle" /\ thread = "running" =>
    /\ client # NoConn
    /\ srv[client].open => srv[client].rtp.play /\ srv[client].rtp.to = receiver

(* Every call of the window returns, whatever TCP splits: each request is  *)
(* answered or the connection ends.                                        *)
CallsReturn == (gui # "idle") ~> (gui = "idle")
=============================================================================
