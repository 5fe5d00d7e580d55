------------------------- MODULE RtspSessionProofs --------------------------
(***************************************************************************)
(* Proofs about RtspSession, for every number of connections and streams,  *)
(* however TCP splits the requests and the answers and whenever either     *)
(* end closes; and, in the second half, about RtpStream, the stream a      *)
(* PLAY starts, for every number of threads, sizes of frames and lengths   *)
(* of a payload.                                                           *)
(***************************************************************************)
EXTENDS RtspSession, RtpStream, SequenceTheorems, TLAPS

(* What the window can rely on before each call: it waits on a connection  *)
(* only, a connection has a url, an idle window with a stream has its      *)
(* connection, and a stop has stopped the worker.                          *)
Calling ==
  /\ gui = "await" => client # NoConn
  /\ gui = "connect" \/ client # NoConn => url # NoUrl
  /\ gui \in {"idle", "start"} /\ thread = "running" => client # NoConn
  /\ gui = "end" => thread # "running"

Typed == TypeOK /\ Calling

-----------------------------------------------------------------------------
(* The operators of the model.                                             *)

(* A request is one request line and header lines.                         *)
LEMMA Lines ==
  ASSUME NEW m \in Methods
  PROVE  /\ LinesOf(m) \in Seq(LineNames) /\ LinesOf(m) # <<>>
         /\ LinesOf(m)[1] = "request"
         /\ \A i \in 2..Len(LinesOf(m)) : LinesOf(m)[i] # "request"
<1>1. CASE m = "OPTIONS"
  BY <1>1 DEF LinesOf, LineNames
<1>2. CASE m = "DESCRIBE"
  BY <1>2 DEF LinesOf, LineNames
<1>3. CASE m = "SETUP"
  BY <1>3 DEF LinesOf, LineNames
<1>4. CASE m = "PLAY"
  BY <1>4 DEF LinesOf, LineNames
<1>5. CASE m = "TEARDOWN"
  BY <1>5 DEF LinesOf, LineNames
<1> QED
  BY <1>1, <1>2, <1>3, <1>4, <1>5 DEF Methods

(* Every port that anybody names is one of Ports.                          *)
LEMMA SomePorts ==
  /\ 0 \in Ports /\ ClientPorts \subseteq Ports /\ ServerPorts \subseteq Ports
  /\ \A s \in Live : MulticastPort[s] \in Ports
  /\ Live \subseteq Hosts /\ "server" \in Hosts /\ "none" \in Hosts
  BY DEF Ports, Hosts

(* The next CSeq is one of the counter's values.                           *)
LEMMA CounterWraps == ASSUME cseq \in 0..(CSeqs - 1) PROVE NextCSeq \in 0..(CSeqs - 1)
  BY SessionAssumption DEF NextCSeq

(* A new RtspConnection is a connection's server.                          *)
LEMMA NewTyped == ASSUME NEW b \in BOOLEAN PROVE NewServer(b) \in Server
<1>1. NoRequest.url \in Sessions
  BY SessionAssumption DEF NoRequest
<1>2. NoRequest \in Request
  BY <1>1, SomePorts, SessionAssumption DEF NoRequest, Request, Methods
<1>3. NoRtp \in Rtp
  BY SomePorts DEF NoRtp, Rtp, Nowhere, Endpoint
<1> QED
  BY <1>2, <1>3, SessionAssumption DEF NewServer, Server

(* What is left of a piece after a request line, and the names in it.      *)
LEMMA Pieces ==
  ASSUME TypeOK, NEW c \in Conns, NEW n \in 1..Len(up[c])
  PROVE  /\ Retrieved(c, n) \in Seq(Line) /\ Len(Retrieved(c, n)) = n
         /\ \A i \in 1..n : Retrieved(c, n)[i] = up[c][i]
         /\ Rest(srv[c], Retrieved(c, n)) \in Seq(Line)
         /\ \A i \in DOMAIN Rest(srv[c], Retrieved(c, n)) :
              Rest(srv[c], Retrieved(c, n))[i] = IF srv[c].state = "line" THEN up[c][i + 1] ELSE up[c][i]
         /\ Len(Rest(srv[c], Retrieved(c, n))) = IF srv[c].state = "line" THEN n - 1 ELSE n
<1>1. up[c] \in Seq(Line) /\ srv[c] \in Server
  BY DEF TypeOK
<1>2. n \in Nat /\ 1 <= n /\ n <= Len(up[c])
  BY <1>1
<1>3. Retrieved(c, n) \in Seq(Line) /\ Len(Retrieved(c, n)) = n
      /\ \A i \in 1..n : Retrieved(c, n)[i] = up[c][i]
  BY <1>1, <1>2 DEF Retrieved
<1>4. Retrieved(c, n) # <<>>
  BY <1>2, <1>3
<1>5. /\ Tail(Retrieved(c, n)) \in Seq(Line) /\ Len(Tail(Retrieved(c, n))) = n - 1
      /\ \A i \in 1..(n - 1) : Tail(Retrieved(c, n))[i] = up[c][i + 1]
  BY <1>2, <1>3, <1>4
<1>6. CASE srv[c].state = "line"
  BY <1>2, <1>3, <1>5, <1>6 DEF Rest
<1>7. CASE srv[c].state # "line"
  BY <1>2, <1>3, <1>7 DEF Rest
<1> QED
  BY <1>3, <1>6, <1>7

(* The parser after a piece of n lines that it can parse.                  *)
Parsed(c, n) ==
  ParseHeaders(ParseLine(srv[c], Retrieved(c, n)), Rest(srv[c], Retrieved(c, n)))
Parsable(c, n) == srv[c].state = "line" => up[c][1].name = "request"

(* It is in a request whose lines it has seen; the number it remembers is  *)
(* the one it had, or that of a line after the request line.               *)
LEMMA ParsedIs ==
  ASSUME TypeOK, NEW c \in Conns, NEW n \in 1..Len(up[c]), Parsable(c, n)
  PROVE  /\ Parsed(c, n) \in Server
         /\ Parsed(c, n).state = "headers" /\ Parsed(c, n).open = srv[c].open
         /\ Parsed(c, n).session = srv[c].session /\ Parsed(c, n).rtp = srv[c].rtp
         /\ Parsed(c, n).request = IF srv[c].state = "line" THEN up[c][1].of ELSE srv[c].request
         /\ Parsed(c, n).gotCSeq =>
              \/ srv[c].gotCSeq /\ Parsed(c, n).seenCSeq = srv[c].seenCSeq
              \/ \E i \in 1..n : /\ Parsed(c, n).seenCSeq = up[c][i].of.cseq
                                 /\ srv[c].state = "line" => i > 1
<1> DEFINE piece == Retrieved(c, n)
           rest == Rest(srv[c], piece)
           line == ParseLine(srv[c], piece)
<1>1. srv[c] \in Server /\ up[c] \in Seq(Line)
  BY DEF TypeOK
<1>2. /\ piece[1] = up[c][1] /\ up[c][1] \in Line
      /\ rest \in Seq(Line)
      /\ Len(rest) = IF srv[c].state = "line" THEN n - 1 ELSE n
      /\ rest # <<>> => rest[1] = IF srv[c].state = "line" THEN up[c][2] ELSE up[c][1]
  <2>1. n \in Nat /\ 1 <= n /\ n <= Len(up[c])
    BY <1>1
  <2>2. up[c][1] \in Line
    BY <1>1, <2>1
  <2>3. /\ rest \in Seq(Line)
        /\ \A i \in DOMAIN rest : rest[i] = IF srv[c].state = "line" THEN up[c][i + 1] ELSE up[c][i]
        /\ Len(rest) = IF srv[c].state = "line" THEN n - 1 ELSE n
        /\ \A i \in 1..n : piece[i] = up[c][i]
    BY Pieces
  <2> HIDE DEF rest, piece
  <2>4. rest # <<>> => 1 \in DOMAIN rest
    BY <2>3
  <2>5. piece[1] = up[c][1]
    BY <2>1, <2>3
  <2>6. rest # <<>> => rest[1] = IF srv[c].state = "line" THEN up[c][2] ELSE up[c][1]
    BY <2>3, <2>4
  <2> QED
    BY <2>2, <2>3, <2>5, <2>6
<1>3. /\ line \in Server /\ line.state = "headers" /\ line.open = srv[c].open
      /\ line.session = srv[c].session /\ line.rtp = srv[c].rtp
      /\ line.gotCSeq = srv[c].gotCSeq /\ line.seenCSeq = srv[c].seenCSeq
      /\ line.request = IF srv[c].state = "line" THEN up[c][1].of ELSE srv[c].request
  <2>1. CASE srv[c].state = "line"
    <3>1. line = [srv[c] EXCEPT !.state = "headers", !.request = up[c][1].of]
      BY <1>2, <2>1 DEF ParseLine, Parsable
    <3>2. up[c][1].of \in Request
      BY <1>2 DEF Line
    <3> QED
      BY <1>1, <2>1, <3>1, <3>2 DEF Server
  <2>2. CASE srv[c].state # "line"
    BY <1>1, <2>2 DEF ParseLine, Server
  <2> QED
    BY <2>1, <2>2
<1> HIDE DEF line
<1>4. CASE "CSeq" \in Names(rest) /\ ~line.gotCSeq
  <2>1. Parsed(c, n) = [line EXCEPT !.gotCSeq = TRUE, !.seenCSeq = rest[1].of.cseq]
    BY <1>4 DEF Parsed, ParseHeaders, line
  <2>2. rest # <<>>
    BY <1>2, <1>4 DEF Names
  <2>3. rest[1] \in Line /\ rest[1].of.cseq \in 0..(CSeqs - 1)
    <3>1. rest[1] \in Line
      BY <1>2, <2>2
    <3> QED
      BY <3>1 DEF Line, Request
  <2>4. Parsed(c, n) \in Server /\ Parsed(c, n).seenCSeq = rest[1].of.cseq
        /\ Parsed(c, n).state = line.state /\ Parsed(c, n).open = line.open
        /\ Parsed(c, n).session = line.session /\ Parsed(c, n).rtp = line.rtp
        /\ Parsed(c, n).request = line.request
    BY <1>3, <2>1, <2>3 DEF Server
  <2>5. \E i \in 1..n : rest[1] = up[c][i] /\ (srv[c].state = "line" => i > 1)
    <3>1. CASE srv[c].state = "line"
      <4>1. n \in Nat /\ 1 <= n /\ n - 1 # 0
        BY <1>1, <1>2, <2>2, <3>1
      <4> QED
        BY <1>2, <2>2, <3>1, <4>1
    <3>2. CASE srv[c].state # "line"
      BY <1>1, <1>2, <2>2, <3>2
    <3> QED
      BY <3>1, <3>2
  <2> QED
    BY <1>3, <2>4, <2>5
<1>5. CASE ~("CSeq" \in Names(rest) /\ ~line.gotCSeq)
  <2>1. Parsed(c, n) = line
    BY <1>5 DEF Parsed, ParseHeaders, line
  <2> QED
    BY <1>3, <2>1
<1> QED
  BY <1>4, <1>5

(* A server whose session has changed.                                     *)
LEMMA WithRtp ==
  ASSUME NEW s \in Server, NEW rtp \in Rtp
  PROVE  /\ [s EXCEPT !.rtp = rtp] \in Server
         /\ [s EXCEPT !.rtp = rtp].rtp = rtp /\ [s EXCEPT !.rtp = rtp].open = s.open
  BY DEF Server

(* What an answer tells of where the packets will go.                      *)
Told(a) == [multicast |-> a.multicast, ip |-> IF a.multicast THEN a.ip ELSE "server",
            port |-> a.port, serverPort |-> IF a.multicast THEN a.port ELSE a.serverPort]

(* An answer to the request that s holds.                                  *)
Answers(s, a) ==
  a \in Answer /\ a.method = s.request.method /\ a.cseq = s.seenCSeq /\ a.whole

(* What the Build functions put into each answer: the method of the        *)
(* request and the number the parser remembers.                            *)
LEMMA Replies ==
  ASSUME NEW s \in Server
  PROVE  Answers(s, Reply(s, TRUE)) /\ Answers(s, Reply(s, FALSE)) /\ ~Reply(s, FALSE).ok
<1>1. s.request \in Request /\ s.seenCSeq \in 0..(CSeqs - 1)
  BY DEF Server
<1>2. s.request.method \in Methods
  BY <1>1 DEF Request
<1> QED
  BY <1>1, <1>2, SomePorts DEF Reply, Answers, Answer

(* DESCRIBE makes the RtpConnection and tells the session's address.       *)
LEMMA DescribeAnswers ==
  ASSUME NEW s \in Server, NEW h \in HandleCmdDescribe(s)
  PROVE  h.to \in Server /\ Answers(s, h.reply) /\ h.to.open = s.open
<1> DEFINE v == s.request.url
           to == [s EXCEPT !.rtp.made = TRUE, !.session = v]
           answer == SdpMessage(s, v)
<1>1. HandleCmdDescribe(s) = {[to |-> to, reply |-> answer]}
  BY DEF HandleCmdDescribe
<1>2. v \in Sessions /\ s.rtp \in Rtp
  BY DEF Server, Request
<1>3. to \in Server /\ to.open = s.open
  <2>1. [s.rtp EXCEPT !.made = TRUE] \in Rtp
    BY <1>2 DEF Rtp
  <2> DEFINE t == [s EXCEPT !.rtp = [s.rtp EXCEPT !.made = TRUE]]
  <2>2. t \in Server /\ t.open = s.open
    BY <2>1, WithRtp
  <2>3. to = [t EXCEPT !.session = v]
    OBVIOUS
  <2> HIDE DEF t, v, to
  <2> QED
    BY <1>2, <2>2, <2>3 DEF Server
<1>4. Answers(s, answer)
  <2> DEFINE yes == Reply(s, TRUE)
  <2>1. Answers(s, yes)
    BY Replies
  <2>2. answer = IF v \in Live
                 THEN [yes EXCEPT !.multicast = TRUE, !.ip = v, !.port = MulticastPort[v]] ELSE yes
    BY DEF SdpMessage
  <2> HIDE DEF yes, v, answer
  <2> QED
    BY <2>1, <2>2, SomePorts DEF Answers, Answer
<1> HIDE DEF to, answer
<1> QED
  BY <1>1, <1>3, <1>4

(* A SETUP that is granted tells where the packets will go.                *)
LEMMA SetupAnswers ==
  ASSUME NEW s \in Server, s.request.method = "SETUP", NEW h \in HandleCmdSetup(s)
  PROVE  /\ h.to \in Server /\ Answers(s, h.reply) /\ h.to.open = s.open
         /\ h.reply.ok => h.to.rtp.setup /\ h.to.rtp.to = Told(h.reply)
<1> DEFINE no == [to |-> s, reply |-> Reply(s, FALSE)]
           yes == Reply(s, TRUE)
<1>1. h = no \/ h \in
        CASE s.session = NoUrl -> {}
          [] s.session \in Live /\ s.request.multicast -> {SetupMulticast(s)}
          [] s.session \in OnDemand /\ ~s.request.multicast -> {SetupUdp(s, p) : p \in ServerPorts}
          [] OTHER -> {}
  BY DEF HandleCmdSetup
<1>2. no.to = s /\ Answers(s, no.reply) /\ ~no.reply.ok
  BY Replies DEF Reply
<1>3. Answers(s, yes) /\ yes.multicast = FALSE
  BY Replies DEF Reply
<1>4. s.request.port \in Ports /\ s.rtp \in Rtp
  BY DEF Server, Request
<1>5. ASSUME NEW to \in Endpoint, NEW t, t = [s EXCEPT !.rtp.setup = TRUE, !.rtp.to = to]
      PROVE  t \in Server /\ t.open = s.open /\ t.rtp.setup /\ t.rtp.to = to
  <2> DEFINE rtp == [s.rtp EXCEPT !.setup = TRUE, !.to = to]
  <2>1. rtp \in Rtp /\ rtp.setup /\ rtp.to = to
    BY <1>4, <1>5 DEF Rtp
  <2>2. t = [s EXCEPT !.rtp = rtp]
    BY <1>5 DEF Server
  <2> HIDE DEF rtp
  <2> QED
    BY <2>1, <2>2, WithRtp
<1>6. ASSUME s.session \in Live, h = SetupMulticast(s)
      PROVE  /\ h.to \in Server /\ Answers(s, h.reply) /\ h.to.open = s.open
             /\ h.to.rtp.setup /\ h.to.rtp.to = Told(h.reply)
  <2> DEFINE port == MulticastPort[s.session]
             to == [multicast |-> TRUE, ip |-> s.session, port |-> port, serverPort |-> port]
             server == [s EXCEPT !.rtp.setup = TRUE, !.rtp.to = to]
             answer == [yes EXCEPT !.multicast = TRUE, !.ip = s.session, !.port = port]
  <2>1. h = [to |-> server, reply |-> answer]
    BY <1>6 DEF SetupMulticast, SetupMulticastRes
  <2>2. to \in Endpoint
    BY <1>6, SomePorts DEF Endpoint
  <2>3. server \in Server /\ server.open = s.open /\ server.rtp.setup /\ server.rtp.to = to
    BY <1>5, <2>2
  <2>4. Answers(s, answer) /\ Told(answer) = to
    <3> HIDE DEF yes
    <3> QED
      BY <1>3, <1>6, SomePorts DEF Answers, Answer, Told
  <2> HIDE DEF server, answer, to
  <2> QED
    BY <2>1, <2>3, <2>4
<1>7. ASSUME NEW p \in ServerPorts, h = SetupUdp(s, p)
      PROVE  /\ h.to \in Server /\ Answers(s, h.reply) /\ h.to.open = s.open
             /\ h.to.rtp.setup /\ h.to.rtp.to = Told(h.reply)
  <2> DEFINE to == [multicast |-> FALSE, ip |-> "server", port |-> s.request.port, serverPort |-> p]
             server == [s EXCEPT !.rtp.setup = TRUE, !.rtp.to = to]
             answer == [yes EXCEPT !.port = s.request.port, !.serverPort = p]
  <2>1. h = [to |-> server, reply |-> answer]
    BY <1>7 DEF SetupUdp, SetupUdpRes
  <2>2. to \in Endpoint
    BY <1>4, <1>7, SomePorts DEF Endpoint
  <2>3. server \in Server /\ server.open = s.open /\ server.rtp.setup /\ server.rtp.to = to
    BY <1>5, <2>2
  <2>4. Answers(s, answer) /\ Told(answer) = to
    <3> HIDE DEF yes
    <3> QED
      BY <1>3, <1>4, <1>7, SomePorts DEF Answers, Answer, Told
  <2> HIDE DEF server, answer, to
  <2> QED
    BY <2>1, <2>3, <2>4
<1> HIDE DEF no, yes
<1>8. CASE s.session = NoUrl
  <2>1. s.session \notin Live /\ s.session \notin OnDemand
    BY <1>8, SessionAssumption DEF Sessions
  <2>2. h = no
    BY <1>1, <1>8, <2>1
  <2> QED
    BY <1>2, <2>2
<1>9. CASE s.session # NoUrl /\ s.session \in Live /\ s.request.multicast
  <2>1. h = no \/ h = SetupMulticast(s)
    BY <1>1, <1>9
  <2> QED
    BY <1>2, <1>6, <1>9, <2>1
<1>10. CASE s.session # NoUrl /\ s.session \in OnDemand /\ ~s.request.multicast
  <2>1. s.session \notin Live
    BY <1>10, SessionAssumption
  <2>2. h = no \/ \E p \in ServerPorts : h = SetupUdp(s, p)
    BY <1>1, <1>10, <2>1
  <2> QED
    BY <1>2, <1>7, <2>2
<1>11. CASE /\ s.session # NoUrl /\ ~(s.session \in Live /\ s.request.multicast)
            /\ ~(s.session \in OnDemand /\ ~s.request.multicast)
  <2>1. h = no
    BY <1>1, <1>11
  <2> QED
    BY <1>2, <2>1
<1> QED
  BY <1>8, <1>9, <1>10, <1>11

(* PLAY starts what has been set up and leaves the rest.                   *)
LEMMA PlayAnswers ==
  ASSUME NEW s \in Server, NEW h \in HandleCmdPlay(s)
  PROVE  /\ h.to \in Server /\ Answers(s, h.reply) /\ h.to.open = s.open
         /\ h.to.rtp.setup = s.rtp.setup /\ h.to.rtp.to = s.rtp.to /\ h.to.rtp.play = s.rtp.setup
<1> DEFINE rtp == [s.rtp EXCEPT !.play = s.rtp.setup]
           to == [s EXCEPT !.rtp = rtp]
           answer == Reply(s, TRUE)
<1>1. HandleCmdPlay(s) = IF s.rtp.made THEN {[to |-> to, reply |-> answer]} ELSE {}
  BY DEF HandleCmdPlay
<1>2. Answers(s, answer)
  BY Replies
<1>3. rtp \in Rtp /\ rtp.setup = s.rtp.setup /\ rtp.to = s.rtp.to /\ rtp.play = s.rtp.setup
  <2>1. s.rtp \in Rtp
    BY DEF Server
  <2> QED
    BY <2>1 DEF Rtp
<1> HIDE DEF rtp
<1>4. to \in Server /\ to.rtp = rtp /\ to.open = s.open
  BY <1>3, WithRtp
<1> HIDE DEF to, answer
<1> QED
  BY <1>1, <1>2, <1>3, <1>4

(* TEARDOWN ends it; the connection stays open.                            *)
LEMMA TeardownAnswers ==
  ASSUME NEW s \in Server, NEW h \in HandleCmdTeardown(s)
  PROVE  h.to \in Server /\ Answers(s, h.reply) /\ h.to.open = s.open
<1> DEFINE over == [s EXCEPT !.rtp = [s.rtp EXCEPT !.closed = TRUE]]
           to == [s EXCEPT !.rtp.closed = TRUE, !.rtp.play = FALSE]
           answer == Reply(s, TRUE)
<1>1. HandleCmdTeardown(s) = IF s.rtp.made THEN {[to |-> to, reply |-> answer]} ELSE {}
  BY DEF HandleCmdTeardown
<1>2. Answers(s, answer)
  BY Replies
<1>3. over \in Server /\ over.open = s.open
  <2>1. [s.rtp EXCEPT !.closed = TRUE] \in Rtp
    BY DEF Server, Rtp
  <2> QED
    BY <2>1, WithRtp
<1>4. to = [over EXCEPT !.rtp = [over.rtp EXCEPT !.play = FALSE]]
  OBVIOUS
<1> HIDE DEF over, to, answer
<1>5. to \in Server /\ to.open = s.open
  <2>1. [over.rtp EXCEPT !.play = FALSE] \in Rtp
    BY <1>3 DEF Server, Rtp
  <2> QED
    BY <1>3, <1>4, <2>1, WithRtp
<1> QED
  BY <1>1, <1>2, <1>5

(* Every handler answers the request with the number the parser remembers. *)
LEMMA HandlersAnswer ==
  ASSUME NEW s \in Server, NEW h \in Handle(s)
  PROVE  /\ h.to \in Server /\ Answers(s, h.reply) /\ h.to.open = s.open
         /\ s.request.method = "SETUP" /\ h.reply.ok =>
              h.to.rtp.setup /\ h.to.rtp.to = Told(h.reply)
         /\ s.request.method = "PLAY" =>
              /\ h.to.rtp.setup = s.rtp.setup /\ h.to.rtp.to = s.rtp.to
              /\ h.to.rtp.play = s.rtp.setup
<1>1. s.request.method \in Methods
  BY DEF Server, Request
<1>2. CASE s.request.method = "OPTIONS"
  <2> DEFINE answer == Reply(s, TRUE)
  <2>1. Handle(s) = {[to |-> s, reply |-> answer]}
    BY <1>2 DEF Handle, HandleCmdOption
  <2>2. Answers(s, answer)
    BY Replies
  <2> HIDE DEF answer
  <2> QED
    BY <1>2, <2>1, <2>2
<1>3. CASE s.request.method = "DESCRIBE"
  <2>1. Handle(s) = HandleCmdDescribe(s)
    BY <1>3 DEF Handle
  <2> QED
    BY <1>3, <2>1, DescribeAnswers
<1>4. CASE s.request.method = "SETUP"
  <2>1. Handle(s) = HandleCmdSetup(s)
    BY <1>4 DEF Handle
  <2> QED
    BY <1>4, <2>1, SetupAnswers
<1>5. CASE s.request.method = "PLAY"
  <2>1. Handle(s) = HandleCmdPlay(s)
    BY <1>5 DEF Handle
  <2> QED
    BY <1>5, <2>1, PlayAnswers
<1>6. CASE s.request.method = "TEARDOWN"
  <2>1. Handle(s) = HandleCmdTeardown(s)
    BY <1>6 DEF Handle
  <2> QED
    BY <1>6, <2>1, TeardownAnswers
<1> QED
  BY <1>1, <1>2, <1>3, <1>4, <1>5, <1>6 DEF Methods

(* What a read does to the connection and to the answers on their way.     *)
LEMMA Reads ==
  ASSUME TypeOK, NEW c \in Conns, NEW n \in 1..Len(up[c]), HandleRead(c, n)
  PROVE  /\ srv[c].open /\ UNCHANGED <<guiVars, workerVars, peerOpen>>
         /\ up' = [up EXCEPT ![c] = SubSeq(@, n + 1, Len(@))]
         /\ \/ srv' = [srv EXCEPT ![c] = Closed] /\ down' = down
            \/ Parsable(c, n) /\ srv' = [srv EXCEPT ![c] = Parsed(c, n)] /\ down' = down
            \/ Parsable(c, n) /\ srv' = [srv EXCEPT ![c] = Reset(Parsed(c, n))] /\ down' = down
            \/ /\ Parsable(c, n) /\ Parsed(c, n).gotCSeq
               /\ \E h \in Handle(Parsed(c, n)) :
                    /\ srv' = [srv EXCEPT ![c] = Reset(h.to)]
                    /\ down' = IF c \in peerOpen THEN [down EXCEPT ![c] = Append(@, h.reply)] ELSE down
<1> DEFINE piece == Retrieved(c, n)
           rest == Rest(srv[c], piece)
           line == ParseLine(srv[c], piece)
<1>1. ~Unparsable(srv[c], piece) => Parsable(c, n)
  BY Pieces DEF Unparsable, Parsable
<1>2. ParseHeaders(line, rest) = Parsed(c, n)
  BY DEF Parsed
<1>3. Complete(line, rest) /\ ~NoCSeq(line, rest) => Parsed(c, n).gotCSeq
  BY <1>2 DEF Complete, NoCSeq
<1> HIDE DEF piece, rest, line
<1> QED
  BY <1>1, <1>2, <1>3 DEF HandleRead, piece, rest, line

(* A read leaves the typed state typed.                                    *)
LEMMA ReadTyped ==
  ASSUME TypeOK, NEW c \in Conns, NEW n \in 1..Len(up[c]), HandleRead(c, n)
  PROVE  TypeOK'
<1>1. up[c] \in Seq(Line) /\ srv[c] \in Server /\ down[c] \in Seq(Answer)
  BY DEF TypeOK
<1>2. SubSeq(up[c], n + 1, Len(up[c])) \in Seq(Line)
  <2>1. \A i \in (n + 1)..Len(up[c]) : up[c][i] \in Line
    BY <1>1
  <2> QED
    BY <1>1, <2>1, SubSeqProperties
<1>3. up' \in [Conns -> Seq(Line)]
  <2>1. up' = [up EXCEPT ![c] = SubSeq(up[c], n + 1, Len(up[c]))]
    BY Reads
  <2> QED
    BY <1>2, <2>1 DEF TypeOK
<1>4. ASSUME NEW s \in Server
      PROVE  Reset(s) \in Server
  BY <1>4 DEF Reset, Server
<1>5. Closed \in Server
  BY NewTyped DEF Closed
<1>6. srv' \in [Conns -> Server] /\ down' \in [Conns -> Seq(Answer)]
  <2>1. CASE srv' = [srv EXCEPT ![c] = Closed] /\ down' = down
    BY <1>5, <2>1 DEF TypeOK
  <2>2. CASE Parsable(c, n) /\ srv' = [srv EXCEPT ![c] = Parsed(c, n)] /\ down' = down
    BY <2>2, ParsedIs DEF TypeOK
  <2>3. CASE Parsable(c, n) /\ srv' = [srv EXCEPT ![c] = Reset(Parsed(c, n))] /\ down' = down
    <3>1. Reset(Parsed(c, n)) \in Server
      BY <1>4, <2>3, ParsedIs
    <3> QED
      BY <2>3, <3>1 DEF TypeOK
  <2>4. ASSUME Parsable(c, n), NEW h \in Handle(Parsed(c, n)),
               srv' = [srv EXCEPT ![c] = Reset(h.to)],
               down' = IF c \in peerOpen THEN [down EXCEPT ![c] = Append(@, h.reply)] ELSE down
        PROVE  srv' \in [Conns -> Server] /\ down' \in [Conns -> Seq(Answer)]
    <3>1. h.to \in Server /\ h.reply \in Answer
      BY <2>4, ParsedIs, HandlersAnswer DEF Answers
    <3>2. Reset(h.to) \in Server
      BY <1>4, <3>1
    <3>3. Append(down[c], h.reply) \in Seq(Answer)
      BY <1>1, <3>1
    <3> QED
      BY <2>4, <3>2, <3>3 DEF TypeOK
  <2> QED
    BY <2>1, <2>2, <2>3, <2>4, Reads
<1>7. UNCHANGED <<guiVars, workerVars, peerOpen>>
  BY Reads
<1> QED
  BY <1>3, <1>6, <1>7 DEF TypeOK, guiVars, workerVars

(* A request is sent as typed lines: those already under way, then its     *)
(* own, the request line first.                                            *)
LEMMA SendLines ==
  ASSUME Typed, NEW m \in Methods, Send(m)
  PROVE  /\ client \in Conns /\ cseq' \in 0..(CSeqs - 1)
         /\ up' \in [Conns -> Seq(Line)] /\ \A c \in Conns \ {client} : up'[c] = up[c]
         /\ Len(up'[client]) > Len(up[client])
         /\ \A i \in 1..Len(up[client]) : up'[client][i] = up[client][i]
         /\ \A i \in (Len(up[client]) + 1)..Len(up'[client]) :
              /\ up'[client][i].name = "request" <=> i = Len(up[client]) + 1
              /\ up'[client][i].of.method = m /\ up'[client][i].of.cseq = cseq'
<1>1. client \in Conns /\ url \in Sessions
  BY DEF Typed, TypeOK, Calling, Send
<1>2. cseq' \in 0..(CSeqs - 1)
  BY CounterWraps DEF Send, Typed, TypeOK
<1> DEFINE request == RequestFor(m, cseq')
<1>3. request \in Request /\ request.method = m /\ request.cseq = cseq'
  <2>1. settings.serverPort \in Ports /\ settings.clientPort \in Ports /\ settings.multicast \in BOOLEAN
    BY DEF Typed, TypeOK, Settings
  <2>2. request.port \in Ports
    BY <2>1, SomePorts DEF RequestFor
  <2>3. request.multicast \in BOOLEAN /\ request.url = url
    BY DEF RequestFor
  <2>4. request = [method |-> m, cseq |-> cseq', url |-> request.url, multicast |-> request.multicast,
                   port |-> request.port]
    BY DEF RequestFor
  <2> HIDE DEF request
  <2> QED
    BY <1>1, <1>2, <2>2, <2>3, <2>4 DEF Request
<1> HIDE DEF request
<1> DEFINE names == LinesOf(m)
           lines == [i \in 1..Len(names) |-> [name |-> names[i], of |-> request]]
<1>4. /\ names \in Seq(LineNames) /\ names # <<>> /\ names[1] = "request"
      /\ \A i \in 2..Len(names) : names[i] # "request"
  BY Lines
<1>5. up' = [up EXCEPT ![client] = up[client] \o lines]
  BY DEF Send, request
<1>6. up[client] \in Seq(Line)
  BY <1>1 DEF Typed, TypeOK
<1> HIDE DEF names
<1>7. lines \in Seq(Line) /\ Len(lines) = Len(names) /\ Len(names) \in Nat \ {0}
  <2>1. Len(names) \in Nat \ {0} /\ \A i \in 1..Len(names) : names[i] \in LineNames
    BY <1>4
  <2>2. \A i \in 1..Len(names) : lines[i] \in Line
    BY <1>3, <2>1 DEF Line
  <2> QED
    BY <2>1, <2>2
<1>8. \A i \in 1..Len(names) :
        lines[i].of = request /\ (lines[i].name = "request" <=> i = 1)
  BY <1>4, <1>7
<1> HIDE DEF lines
<1> DEFINE whole == up[client] \o lines
<1>9. /\ whole \in Seq(Line) /\ Len(whole) = Len(up[client]) + Len(names)
      /\ \A i \in 1..Len(up[client]) : whole[i] = up[client][i]
      /\ \A i \in (Len(up[client]) + 1)..Len(whole) : whole[i] = lines[i - Len(up[client])]
  BY <1>6, <1>7
<1> HIDE DEF whole
<1>10. up'[client] = whole /\ up' \in [Conns -> Seq(Line)] /\ \A c \in Conns \ {client} : up'[c] = up[c]
  BY <1>1, <1>5, <1>9 DEF whole, Typed, TypeOK
<1>11. ASSUME NEW i \in (Len(up[client]) + 1)..Len(whole)
       PROVE  /\ whole[i].name = "request" <=> i = Len(up[client]) + 1
              /\ whole[i].of = request
  <2>1. i - Len(up[client]) \in 1..Len(names) /\ whole[i] = lines[i - Len(up[client])]
    BY <1>6, <1>7, <1>9
  <2> QED
    BY <1>6, <1>8, <2>1
<1>12. Len(whole) > Len(up[client])
  BY <1>6, <1>7, <1>9
<1>13. \A i \in (Len(up[client]) + 1)..Len(whole) :
         /\ whole[i].name = "request" <=> i = Len(up[client]) + 1
         /\ whole[i].of.method = m /\ whole[i].of.cseq = cseq'
  BY <1>3, <1>11
<1> QED
  BY <1>1, <1>2, <1>9, <1>10, <1>12, <1>13

(* What the answers tell the worker is typed.                              *)
LEMMA LearnTyped ==
  ASSUME TypeOK, NEW a \in Answer, Learn(a)
  PROVE  settings' \in Settings
<1>1. /\ settings \in Settings
      /\ a.multicast \in BOOLEAN /\ a.ip \in Hosts /\ a.port \in Ports /\ a.serverPort \in Ports
  BY DEF TypeOK, Answer
<1>2. CASE a.method = "DESCRIBE"
  <2>1. Described(a)
    BY <1>2 DEF Learn
  <2> QED
    BY <1>1, <2>1, SomePorts DEF Described, Settings
<1>3. CASE a.method = "SETUP"
  <2>1. SetUp(a)
    BY <1>3 DEF Learn
  <2> QED
    BY <1>1, <2>1, SomePorts DEF SetUp, Settings
<1>4. CASE a.method # "DESCRIBE" /\ a.method # "SETUP"
  <2>1. settings' = settings
    BY <1>4 DEF Learn
  <2> QED
    BY <1>1, <2>1
<1> QED
  BY <1>2, <1>3, <1>4

(* The program counters of the window's thread.                            *)
GuiPlaces == {"idle", "start", "connect", "await", "worker", "stop", "stopWorker", "end"} \cup Methods

(* Where a request's answer or an exception leads is one of them.          *)
LEMMA NextPlaces ==
  ASSUME NEW m \in Methods
  PROVE  Done(m) \in GuiPlaces /\ Thrown(m) \in GuiPlaces
  BY DEF Done, Thrown, GuiPlaces, Methods

(* The clicks, and the window's steps that send and receive nothing.       *)
LEMMA QuietTyped ==
  ASSUME Typed,
         \/ OpenClicked \/ CloseClicked \/ (\E s \in Sessions : StreamClicked(s))
         \/ Start \/ ConnectFails \/ WorkerStarts \/ Stop \/ StopStops \/ WorkerEnds
  PROVE  TypeOK'
<1>1. CASE OpenClicked \/ CloseClicked \/ Start \/ ConnectFails \/ Stop \/ WorkerEnds
  BY <1>1 DEF Typed, TypeOK, OpenClicked, CloseClicked, Start, ConnectFails, Stop, WorkerEnds,
     guiVars, workerVars, Methods
<1>2. CASE StopStops \/ (\E s \in Sessions : StreamClicked(s))
  BY <1>2 DEF Typed, TypeOK, StopStops, StreamClicked, StopWorker
<1>3. CASE WorkerStarts
  <2>1. Listening \in Endpoint
    <3>1. settings \in Settings
      BY DEF Typed, TypeOK
    <3> QED
      BY <3>1 DEF Listening, Settings, Endpoint
  <2> HIDE DEF Listening
  <2> QED
    BY <1>3, <2>1 DEF Typed, TypeOK, WorkerStarts, Methods
<1> QED
  BY <1>1, <1>2, <1>3

(* Every step keeps the types and what the window relies on.               *)
LEMMA TypedStep ==
  ASSUME Typed, [Next]_vars
  PROVE  TypeOK'
<1>1. CASE UNCHANGED vars
  BY <1>1 DEF Typed, TypeOK, vars, guiVars, workerVars
<1>2. CASE \/ OpenClicked \/ CloseClicked \/ (\E s \in Sessions : StreamClicked(s))
           \/ Start \/ ConnectFails \/ WorkerStarts \/ Stop \/ StopStops \/ WorkerEnds
  BY <1>2, QuietTyped
<1>3. CASE Abandon
  BY <1>3 DEF Typed, TypeOK, Abandon, workerVars
<1>4. ASSUME NEW c \in Conns, Connect(c)
      PROVE  TypeOK'
  <2>1. NewServer(TRUE) \in Server
    BY NewTyped
  <2> DEFINE new == NewServer(TRUE)
  <2>2. srv' = [srv EXCEPT ![c] = new]
    BY <1>4 DEF Connect
  <2> HIDE DEF new
  <2>3. srv' \in [Conns -> Server]
    BY <2>1, <2>2 DEF Typed, TypeOK, new
  <2>4. up' \in [Conns -> Seq(Line)] /\ down' \in [Conns -> Seq(Answer)]
    BY <1>4 DEF Typed, TypeOK, Connect
  <2> QED
    BY <1>4, <2>3, <2>4 DEF Typed, TypeOK, Connect, workerVars, Methods
<1>5. ASSUME NEW m \in Methods, Send(m)
      PROVE  TypeOK'
  <2>1. cseq' \in 0..(CSeqs - 1) /\ up' \in [Conns -> Seq(Line)]
    BY <1>5, SendLines
  <2> QED
    BY <1>5, <2>1 DEF Typed, TypeOK, Send, workerVars
<1>6. CASE Receive
  <2>1. client \in Conns /\ gui = "await"
    BY <1>6 DEF Typed, TypeOK, Calling, Receive
  <2>2. Head(down[client]) \in Answer /\ Tail(down[client]) \in Seq(Answer)
    BY <1>6, <2>1 DEF Typed, TypeOK, Receive
  <2> DEFINE a == Head(down[client])
  <2>3. awaiting \in Methods
    BY DEF Typed, TypeOK
  <2>4. settings' \in Settings
    <3>1. Learn(a) \/ settings' = settings
      BY <1>6 DEF Receive
    <3>2. settings \in Settings
      BY DEF Typed, TypeOK
    <3> QED
      BY <2>2, <3>1, <3>2, LearnTyped DEF Typed
  <2>5. gui' \in GuiPlaces
    BY <1>6, <2>3, NextPlaces DEF Receive
  <2>6. after' \in {"idle", "start", "forget"}
    BY <1>6 DEF Receive, AfterThrown, Typed, TypeOK
  <2>7. down' \in [Conns -> Seq(Answer)]
    BY <1>6, <2>1, <2>2 DEF Receive, Typed, TypeOK
  <2>8. UNCHANGED <<awaiting, url, cseq, client, thread, receiver, peerOpen, up, srv>>
    BY <1>6 DEF Receive
  <2> QED
    BY <2>4, <2>5, <2>6, <2>7, <2>8 DEF Typed, TypeOK, GuiPlaces
<1>7. CASE ReceivePart
  <2>1. client \in Conns /\ gui = "await"
    BY <1>7 DEF Typed, TypeOK, Calling, ReceivePart
  <2>2. down[client] \in Seq(Answer) /\ down[client] # <<>>
    BY <1>7, <2>1 DEF Typed, TypeOK, ReceivePart
  <2> DEFINE part == [down[client][1] EXCEPT !.whole = FALSE]
             parts == [down[client] EXCEPT ![1] = part]
  <2>3. part \in Answer
    <3>1. down[client][1] \in Answer
      BY <2>2
    <3> QED
      BY <3>1 DEF Answer
  <2>4. down' = [down EXCEPT ![client] = parts]
    BY <1>7 DEF ReceivePart
  <2> HIDE DEF part
  <2>5. parts \in Seq(Answer)
    BY <2>2, <2>3
  <2>6. down' \in [Conns -> Seq(Answer)]
    BY <2>1, <2>4, <2>5 DEF Typed, TypeOK
  <2>7. gui' \in GuiPlaces /\ after' \in {"idle", "start", "forget"}
    BY <1>7, NextPlaces DEF ReceivePart, AfterThrown, Typed, TypeOK
  <2> QED
    BY <1>7, <2>6, <2>7 DEF ReceivePart, Typed, TypeOK, GuiPlaces, workerVars
<1>8. CASE ReceiveEnd
  <2>1. gui' \in GuiPlaces /\ after' \in {"idle", "start", "forget"}
    BY <1>8, NextPlaces DEF ReceiveEnd, AfterThrown, Typed, TypeOK
  <2> QED
    BY <1>8, <2>1 DEF ReceiveEnd, Typed, TypeOK, GuiPlaces, workerVars
<1>9. CASE StopEnds
  <2>1. down' \in [Conns -> Seq(Answer)]
    BY <1>9 DEF StopEnds, Typed, TypeOK
  <2> QED
    BY <1>9, <2>1 DEF StopEnds, Typed, TypeOK, workerVars
<1>10. ASSUME NEW c \in Conns, ReadEnd(c)
       PROVE  TypeOK'
  <2>1. Closed \in Server
    BY NewTyped DEF Closed
  <2>2. srv' = [srv EXCEPT ![c] = Closed]
    BY <1>10 DEF ReadEnd
  <2>3. srv' \in [Conns -> Server]
    BY <2>1, <2>2 DEF Typed, TypeOK
  <2> QED
    BY <1>10, <2>3 DEF ReadEnd, Typed, TypeOK, guiVars, workerVars
<1>11. ASSUME NEW c \in Conns, NEW n \in 1..Len(up[c]), HandleRead(c, n)
       PROVE  TypeOK'
  BY <1>11, ReadTyped DEF Typed
<1> QED
  BY <1>1, <1>2, <1>3, <1>4, <1>5, <1>6, <1>7, <1>8, <1>9, <1>10, <1>11
     DEF Next, Window, Clicks, ServerReads

(* The window waits on a connection, a connection has a url, and a stop    *)
(* leaves no running worker.                                               *)
LEMMA CallingStep ==
  ASSUME Typed, [Next]_vars
  PROVE  Calling'
<1>1. CASE UNCHANGED vars
  BY <1>1 DEF Typed, Calling, vars, guiVars, workerVars
<1>2. CASE OpenClicked \/ CloseClicked \/ Start \/ ConnectFails \/ Stop \/ WorkerEnds
  BY <1>2 DEF Typed, Calling, OpenClicked, CloseClicked, Start, BadUrl, ConnectFails, Stop, WorkerEnds,
     IsRunning, guiVars, workerVars
<1>3. CASE StopStops \/ (\E s \in Sessions : StreamClicked(s))
  BY <1>3, SessionAssumption DEF Typed, Calling, StopStops, StreamClicked, StopWorker, IsRunning
<1>4. CASE WorkerStarts \/ Abandon \/ StopEnds
  BY <1>4 DEF Typed, Calling, WorkerStarts, Abandon, StopEnds, workerVars
<1>5. ASSUME NEW c \in Conns, Connect(c)
      PROVE  Calling'
  BY <1>5, SessionAssumption DEF Typed, Calling, Connect, workerVars
<1>6. ASSUME NEW m \in Methods, Send(m)
      PROVE  Calling'
  BY <1>6 DEF Typed, Calling, Send, workerVars
<1>7. CASE Receive \/ ReceivePart \/ ReceiveEnd
  <2>1. gui = "await" /\ UNCHANGED <<client, url, thread>>
    BY <1>7 DEF Receive, ReceivePart, ReceiveEnd, workerVars
  <2>2. awaiting \in Methods /\ client # NoConn /\ url # NoUrl
    BY <2>1 DEF Typed, TypeOK, Calling
  <2>3. gui' = Done(awaiting) \/ gui' = Thrown(awaiting)
    BY <1>7 DEF Receive, ReceivePart, ReceiveEnd
  <2>4. gui' \notin {"start", "connect", "end"}
    BY <2>2, <2>3 DEF Done, Thrown, Methods
  <2> QED
    BY <2>1, <2>2, <2>4 DEF Calling
<1>8. CASE ServerReads
  <2>1. UNCHANGED <<guiVars, workerVars>>
    BY <1>8 DEF ServerReads, ReadEnd, HandleRead
  <2> QED
    BY <2>1 DEF Typed, Calling, guiVars, workerVars
<1> QED
  BY <1>1, <1>2, <1>3, <1>4, <1>5, <1>6, <1>7, <1>8 DEF Next, Window, Clicks

(* The initial state is typed.                                             *)
LEMMA InitTyped == Init => Typed
<1> SUFFICES ASSUME Init PROVE Typed
  OBVIOUS
<1>1. settings \in Settings
  BY SomePorts DEF Init, Settings
<1>2. srv \in [Conns -> Server]
  <2>1. NewServer(FALSE) \in Server
    BY NewTyped
  <2> DEFINE new == NewServer(FALSE)
  <2>2. srv = [c \in Conns |-> new]
    BY DEF Init
  <2> HIDE DEF new
  <2> QED
    BY <2>1, <2>2 DEF new
<1>3. 0 \in 0..(CSeqs - 1)
  BY SessionAssumption
<1>4. /\ gui = "idle" /\ after = "idle" /\ awaiting = "OPTIONS"
      /\ url = NoUrl /\ cseq = 0 /\ client = NoConn
      /\ thread = "off" /\ receiver = NoReceiver /\ peerOpen = {}
      /\ up = [c \in Conns |-> <<>>] /\ down = [c \in Conns |-> <<>>]
  BY Zenon DEF Init
<1> QED
  BY <1>1, <1>2, <1>3, <1>4 DEF Typed, TypeOK, Calling, Methods

(* The types hold in every reachable state.                                *)
LEMMA AlwaysTyped == Spec => []Typed
<1>1. Typed /\ [Next]_vars => Typed'
  BY TypedStep, CallingStep DEF Typed
<1> QED
  BY InitTyped, <1>1, PTL DEF Spec

(* Type correctness of both ends and of the two byte streams.              *)
THEOREM TypeCorrect == Spec => []TypeOK
<1>1. Typed => TypeOK
  BY DEF Typed
<1> QED
  BY AlwaysTyped, <1>1, PTL

-----------------------------------------------------------------------------
(* The conversation over the window's connection.                          *)

(* A request line that has not been read, and a request that is the last   *)
(* the window has sent.                                                    *)
Unread(c) == \E i \in 1..Len(up[c]) : up[c][i].name = "request"
Fresh(r) == r.method = awaiting /\ r.cseq = cseq
(* The server has no request left, at most the last lines of one.          *)
Resting(c) == srv[c].open => srv[c].state = "line" /\ ~Unread(c)

(* From a request line on, everything under way or held by the parser is   *)
(* of the last request; between two requests the parser remembers nothing. *)
Parsing ==
  client # NoConn /\ srv[client].open =>
    /\ \A i, j \in 1..Len(up[client]) :
         up[client][i].name = "request" /\ i <= j =>
           Fresh(up[client][j].of) /\ (i < j => up[client][j].name # "request")
    /\ srv[client].state = "headers" =>
         /\ Fresh(srv[client].request)
         /\ \A j \in 1..Len(up[client]) : up[client][j].name # "request" /\ Fresh(up[client][j].of)
    /\ srv[client].state = "line" => ~srv[client].gotCSeq
    /\ srv[client].gotCSeq => srv[client].seenCSeq = cseq

(* While the window does not wait, and is not about to close, the server   *)
(* rests and no answer is under way.                                       *)
Settled ==
  client # NoConn /\ gui \notin {"await", "stopWorker", "end"} =>
    Resting(client) /\ \A i \in 1..Len(down[client]) : ~down[client][i].whole

(* While it waits, a whole answer is to the last request and its last.     *)
Answered ==
  gui = "await" =>
    \A i \in 1..Len(down[client]) :
      down[client][i].whole => Fresh(down[client][i]) /\ Resting(client)

(* What an answer read in two pieces leaves behind meets no other request  *)
(* than TEARDOWN.                                                          *)
Unsplit ==
  /\ gui \in {"OPTIONS", "DESCRIBE", "SETUP", "PLAY", "worker"} /\ client # NoConn => down[client] = <<>>
  /\ gui = "await" /\ awaiting # "TEARDOWN" =>
       Len(down[client]) <= 1 /\ \A i \in 1..Len(down[client]) : down[client][i].whole

(* The server sends to an endpoint, or has been told to.                   *)
SetUpFor(c, endpoint) == srv[c].open => srv[c].rtp.setup /\ srv[c].rtp.to = endpoint
Plays(c) == srv[c].open => srv[c].rtp.play

(* From the answer to SETUP to the end of the stream the server sends to   *)
(* where the receiver listens.                                             *)
Streaming ==
  /\ gui = "await" /\ awaiting = "SETUP" =>
       \A i \in 1..Len(down[client]) :
         down[client][i].whole /\ down[client][i].ok => SetUpFor(client, Told(down[client][i]))
  /\ gui = "worker" /\ client # NoConn => SetUpFor(client, Listening)
  /\ (gui = "PLAY" /\ client # NoConn) \/ (gui = "await" /\ awaiting = "PLAY") =>
       SetUpFor(client, receiver)
  /\ gui = "await" /\ awaiting = "PLAY" /\ down[client] # <<>> => Plays(client)
  /\ gui \in {"idle", "start"} /\ thread = "running" => SetUpFor(client, receiver) /\ Plays(client)

Conversation == Typed /\ Parsing /\ Settled /\ Answered /\ Unsplit /\ Streaming

(* A click, or a step of the window that sends and receives nothing.       *)
Aside == \/ OpenClicked \/ CloseClicked \/ (\E s \in Sessions : StreamClicked(s))
         \/ Start \/ ConnectFails \/ WorkerStarts \/ Stop \/ StopStops \/ WorkerEnds
(* It touches neither the connection nor what is under way on it.          *)
LEMMA AsideKeeps ==
  ASSUME Aside
  PROVE  /\ UNCHANGED <<awaiting, cseq, client, up, down, srv>>
         /\ gui = "await" <=> gui' = "await"
         /\ gui' \notin {"await", "stopWorker", "end"} => gui \notin {"await", "stopWorker", "end"}
         /\ gui' \in {"OPTIONS", "DESCRIBE", "SETUP", "PLAY", "worker"} =>
              gui \in {"OPTIONS", "DESCRIBE", "SETUP", "PLAY", "worker"}
<1>1. CASE OpenClicked \/ CloseClicked \/ (\E s \in Sessions : StreamClicked(s))
  BY <1>1 DEF OpenClicked, CloseClicked, StreamClicked
<1>2. CASE Start \/ ConnectFails \/ Stop
  BY <1>2 DEF Start, ConnectFails, Stop
<1>3. CASE WorkerStarts \/ StopStops
  BY <1>3 DEF WorkerStarts, StopStops
<1>4. CASE WorkerEnds
  BY <1>4 DEF WorkerEnds, guiVars
<1> QED
  BY <1>1, <1>2, <1>3, <1>4 DEF Aside

(* They leave both ends' conversation as it is.                            *)
LEMMA AsideStep ==
  ASSUME Conversation, Aside
  PROVE  Parsing' /\ Settled' /\ Answered' /\ Unsplit'
BY AsideKeeps DEF Conversation, Parsing, Settled, Answered, Unsplit, Fresh, Resting, Unread

(* While nothing is asked the endpoints stay what they are, and a receiver *)
(* that starts listens where SETUP was told.                               *)
LEMMA AsideStreams ==
  ASSUME Conversation, Aside
  PROVE  Streaming'
<1>1. UNCHANGED <<awaiting, cseq, client, up, down, srv>>
  BY AsideKeeps
<1>2. CASE OpenClicked \/ CloseClicked \/ Start \/ ConnectFails \/ Stop \/ WorkerEnds
  <2>1. UNCHANGED <<settings, receiver>> /\ (thread' = "running" => thread = "running")
    BY <1>2 DEF OpenClicked, CloseClicked, Start, ConnectFails, Stop, WorkerEnds, workerVars
  <2>2. \/ gui' = gui \/ gui' \in {"stop", "connect", "end", "stopWorker", "TEARDOWN"}
        \/ gui' \in {"idle", "start"} /\ gui \in {"idle", "start"}
    BY <1>2 DEF OpenClicked, CloseClicked, Start, ConnectFails, Stop, WorkerEnds, guiVars
  <2> QED
    BY <1>1, <2>1, <2>2 DEF Conversation, Streaming, SetUpFor, Plays, Listening
<1>3. CASE StopStops \/ (\E s \in Sessions : StreamClicked(s))
  <2>1. gui' \in {"end", "stop"}
    BY <1>3 DEF StopStops, StreamClicked
  <2> QED
    BY <2>1 DEF Streaming
<1>4. CASE WorkerStarts
  <2>1. \/ gui = "worker" /\ gui' = "PLAY" /\ receiver' = Listening
        \/ gui' = "stop"
    BY <1>4 DEF WorkerStarts
  <2> QED
    BY <1>1, <2>1 DEF Conversation, Streaming, SetUpFor
<1> QED
  BY <1>2, <1>3, <1>4 DEF Aside

(* A step of the server that does not concern the window's connection.     *)
LEMMA ElsewhereStep ==
  ASSUME Conversation, UNCHANGED <<guiVars, workerVars>>,
         client # NoConn =>
           up'[client] = up[client] /\ down'[client] = down[client] /\ srv'[client] = srv[client]
  PROVE  Parsing' /\ Settled' /\ Answered' /\ Unsplit' /\ Streaming'
<1>1. UNCHANGED <<gui, awaiting, cseq, client, settings, thread, receiver>>
  BY DEF guiVars, workerVars
<1>2. CASE client # NoConn
  <2>1. up'[client] = up[client] /\ down'[client] = down[client] /\ srv'[client] = srv[client]
    BY <1>2
  <2>2. Parsing' /\ Settled' /\ Answered' /\ Unsplit'
    BY <1>1, <2>1 DEF Conversation, Parsing, Settled, Answered, Unsplit, Fresh, Resting, Unread
  <2>3. Streaming'
    BY <1>1, <2>1 DEF Conversation, Streaming, SetUpFor, Plays, Listening
  <2> QED
    BY <2>2, <2>3
<1>3. CASE client = NoConn
  BY <1>1, <1>3 DEF Conversation, Typed, Calling, Parsing, Settled, Answered, Unsplit, Streaming
<1> QED
  BY <1>2, <1>3

(* The server closes the window's connection: what it has answered may     *)
(* still arrive.                                                           *)
LEMMA ClosingStep ==
  ASSUME Conversation, UNCHANGED <<guiVars, workerVars>>, down' = down, ~srv'[client].open
  PROVE  Parsing' /\ Settled' /\ Answered' /\ Unsplit' /\ Streaming'
<1>1. UNCHANGED <<gui, awaiting, cseq, client, settings, thread, receiver>>
  BY DEF guiVars, workerVars
<1>2. Parsing' /\ Settled' /\ Answered' /\ Unsplit'
  BY <1>1 DEF Conversation, Parsing, Settled, Answered, Unsplit, Fresh, Resting
<1>3. Streaming'
  BY <1>1 DEF Streaming, SetUpFor, Plays
<1> QED
  BY <1>2, <1>3

(* A piece that the parser accepts is of the last request, and it ends     *)
(* the rest of the server.                                                 *)
LEMMA ParsedFresh ==
  ASSUME Typed, Parsing, client \in Conns, srv[client].open, NEW n \in 1..Len(up[client]), Parsable(client, n)
  PROVE  /\ ~Resting(client)
         /\ Fresh(Parsed(client, n).request)
         /\ Parsed(client, n).gotCSeq => Parsed(client, n).seenCSeq = cseq
         /\ \A j \in (n + 1)..Len(up[client]) :
              up[client][j].name # "request" /\ Fresh(up[client][j].of)
<1>1. client # NoConn /\ up[client] \in Seq(Line)
  BY SessionAssumption DEF Typed, TypeOK
<1>2. n \in Nat /\ 1 <= n /\ n <= Len(up[client]) /\ Len(up[client]) \in Nat
  BY <1>1
<1>3. srv[client].state \in {"line", "headers"}
  BY DEF Typed, TypeOK, Server
<1> DEFINE P == Parsed(client, n)
<1>4. /\ P.request = IF srv[client].state = "line" THEN up[client][1].of ELSE srv[client].request
      /\ P.gotCSeq =>
           \/ srv[client].gotCSeq /\ P.seenCSeq = srv[client].seenCSeq
           \/ \E i \in 1..n : /\ P.seenCSeq = up[client][i].of.cseq
                              /\ srv[client].state = "line" => i > 1
  BY ParsedIs DEF Typed
<1> HIDE DEF P
<1>5. CASE srv[client].state = "line"
  <2>1. up[client][1].name = "request"
    BY <1>5 DEF Parsable
  <2>2. ~Resting(client)
    BY <1>2, <2>1 DEF Resting, Unread
  <2>3. \A j \in 1..Len(up[client]) :
          Fresh(up[client][j].of) /\ (1 < j => up[client][j].name # "request")
    BY <1>1, <1>2, <2>1 DEF Parsing
  <2>4. P.gotCSeq => P.seenCSeq = cseq
    <3>1. ~srv[client].gotCSeq
      BY <1>1, <1>5 DEF Parsing
    <3> QED
      BY <1>2, <1>4, <2>3, <3>1 DEF Fresh
  <2>5. Fresh(P.request)
    BY <1>2, <1>4, <1>5, <2>3
  <2> QED
    BY <1>2, <2>2, <2>3, <2>4, <2>5 DEF P
<1>6. CASE srv[client].state = "headers"
  <2>1. /\ Fresh(srv[client].request)
        /\ \A j \in 1..Len(up[client]) : up[client][j].name # "request" /\ Fresh(up[client][j].of)
        /\ srv[client].gotCSeq => srv[client].seenCSeq = cseq
    BY <1>1, <1>6 DEF Parsing
  <2>2. ~Resting(client)
    BY <1>6 DEF Resting
  <2>3. P.gotCSeq => P.seenCSeq = cseq
    BY <1>2, <1>4, <2>1 DEF Fresh
  <2>4. Fresh(P.request)
    BY <1>4, <1>6, <2>1
  <2> QED
    BY <1>2, <2>1, <2>2, <2>3, <2>4 DEF P
<1> QED
  BY <1>3, <1>5, <1>6

(* What a read leaves under way to the server.                             *)
LEMMA LeftOver ==
  ASSUME TypeOK, NEW c \in Conns, NEW n \in 1..Len(up[c]),
         up' = [up EXCEPT ![c] = SubSeq(@, n + 1, Len(@))]
  PROVE  \A j \in 1..Len(up'[c]) : n + j \in (n + 1)..Len(up[c]) /\ up'[c][j] = up[c][n + j]
<1>1. up[c] \in Seq(Line) /\ n \in Nat /\ 1 <= n /\ n <= Len(up[c]) /\ Len(up[c]) \in Nat
  BY DEF TypeOK
<1>2. up'[c] = SubSeq(up[c], n + 1, Len(up[c]))
  BY DEF TypeOK
<1>3. /\ Len(SubSeq(up[c], n + 1, Len(up[c]))) = Len(up[c]) - n
      /\ \A j \in 1..(Len(up[c]) - n) : SubSeq(up[c], n + 1, Len(up[c]))[j] = up[c][n + j]
  BY <1>1
<1> QED
  BY <1>1, <1>2, <1>3

(* The server reads a piece of the request the window waits for, or that   *)
(* it has given up with the connection.                                    *)
LEMMA LiveRead ==
  ASSUME Conversation, client \in Conns, NEW n \in 1..Len(up[client]), HandleRead(client, n),
         Parsable(client, n), NEW s \in Server, srv' = [srv EXCEPT ![client] = s],
         \/ s = Parsed(client, n) /\ down' = down
         \/ s = Reset(Parsed(client, n)) /\ down' = down
         \/ /\ Parsed(client, n).gotCSeq
            /\ \E h \in Handle(Parsed(client, n)) :
                 /\ s = Reset(h.to)
                 /\ down' = IF client \in peerOpen
                            THEN [down EXCEPT ![client] = Append(@, h.reply)] ELSE down
  PROVE  Parsing' /\ Settled' /\ Answered' /\ Unsplit' /\ Streaming'
<1>1. TypeOK /\ Typed /\ Parsing
  BY DEF Conversation, Typed
<1>2. UNCHANGED <<gui, awaiting, cseq, client, settings, thread, receiver>> /\ srv[client].open
  BY DEF HandleRead, guiVars, workerVars
<1> DEFINE P == Parsed(client, n)
<1>3. /\ ~Resting(client) /\ Fresh(P.request) /\ (P.gotCSeq => P.seenCSeq = cseq)
      /\ \A j \in (n + 1)..Len(up[client]) : up[client][j].name # "request" /\ Fresh(up[client][j].of)
  BY <1>1, <1>2, ParsedFresh
<1>4. P \in Server /\ P.state = "headers" /\ P.rtp = srv[client].rtp
  BY <1>1, ParsedIs
<1>5. \A j \in 1..Len(up'[client]) : up'[client][j].name # "request" /\ Fresh(up'[client][j].of)
  <2>1. up' = [up EXCEPT ![client] = SubSeq(@, n + 1, Len(@))]
    BY DEF HandleRead
  <2>2. \A j \in 1..Len(up'[client]) :
          n + j \in (n + 1)..Len(up[client]) /\ up'[client][j] = up[client][n + j]
    BY <1>1, <2>1, LeftOver
  <2> QED
    BY <1>3, <2>2
<1>6. srv'[client] = s
  BY <1>1 DEF TypeOK
<1>7. gui \in {"await", "stopWorker", "end"}
  BY <1>3, SessionAssumption DEF Conversation, Settled
<1>8. gui = "await" => \A i \in 1..Len(down[client]) : ~down[client][i].whole
  BY <1>3 DEF Conversation, Answered
<1>9. Settled'
  BY <1>2, <1>7 DEF Settled
<1>10. \A t \in Server : /\ Reset(t).state = "line" /\ ~Reset(t).gotCSeq
                         /\ Reset(t).rtp = t.rtp
  BY DEF Reset, Server
<1>11. gui = "await" /\ awaiting # "TEARDOWN" => down[client] = <<>>
  <2>1. down[client] \in Seq(Answer)
    BY <1>1 DEF TypeOK
  <2>2. gui = "await" /\ awaiting # "TEARDOWN" =>
          \A i \in 1..Len(down[client]) : down[client][i].whole
    BY DEF Conversation, Unsplit
  <2> QED
    BY <1>8, <2>1, <2>2
<1>12. ASSUME s.state = "line" /\ ~s.gotCSeq
       PROVE  Parsing' /\ Resting(client)'
  BY <1>2, <1>5, <1>6, <1>12 DEF Parsing, Resting, Unread
<1>13. gui = "await" /\ awaiting = "PLAY" => SetUpFor(client, receiver)
  BY DEF Conversation, Streaming
<1> HIDE DEF P
<1>14. CASE down' = down /\ (s = P \/ s = Reset(P))
  <2>1. Parsing'
    <3>1. CASE s = P
      BY <1>2, <1>3, <1>4, <1>5, <1>6, <3>1 DEF Parsing, Fresh
    <3>2. CASE s = Reset(P)
      BY <1>4, <1>10, <1>12, <3>2
    <3> QED
      BY <1>14, <3>1, <3>2
  <2>2. Answered'
    BY <1>2, <1>8, <1>14 DEF Answered
  <2>3. Unsplit'
    BY <1>2, <1>7, <1>14 DEF Conversation, Unsplit
  <2>4. s.rtp = srv[client].rtp
    BY <1>4, <1>10, <1>14
  <2>5. Streaming'
    <3>1. gui = "await" /\ awaiting = "PLAY" => SetUpFor(client, receiver)'
      BY <1>2, <1>6, <1>13, <2>4 DEF SetUpFor
    <3> QED
      BY <1>2, <1>7, <1>8, <1>11, <1>14, <3>1 DEF Streaming
  <2> QED
    BY <1>9, <2>1, <2>2, <2>3, <2>5
<1>15. ASSUME P.gotCSeq, NEW h \in Handle(P), s = Reset(h.to),
              down' = IF client \in peerOpen THEN [down EXCEPT ![client] = Append(@, h.reply)] ELSE down
       PROVE  Parsing' /\ Answered' /\ Unsplit' /\ Streaming'
  <2>1. /\ h.to \in Server /\ Answers(P, h.reply)
        /\ P.request.method = "SETUP" /\ h.reply.ok => h.to.rtp.setup /\ h.to.rtp.to = Told(h.reply)
        /\ P.request.method = "PLAY" =>
             /\ h.to.rtp.setup = P.rtp.setup /\ h.to.rtp.to = P.rtp.to
             /\ h.to.rtp.play = P.rtp.setup
    BY <1>4, <1>15, HandlersAnswer
  <2>2. P.request.method = awaiting /\ h.reply.method = awaiting /\ h.reply.cseq = cseq /\ h.reply.whole
    BY <1>3, <1>15, <2>1 DEF Fresh, Answers
  <2>3. s.state = "line" /\ ~s.gotCSeq /\ s.rtp = h.to.rtp
    BY <1>10, <1>15, <2>1
  <2>4. Parsing' /\ Resting(client)'
    BY <1>12, <2>3
  <2>5. down[client] \in Seq(Answer) /\ h.reply \in Answer
    BY <1>1, <2>1 DEF TypeOK, Answers
  <2>6. \A i \in 1..Len(down'[client]) :
          \/ i \in 1..Len(down[client]) /\ down'[client][i] = down[client][i]
          \/ down'[client][i] = h.reply
    BY <1>1, <1>15, <2>5 DEF TypeOK
  <2>7. gui = "await" /\ awaiting # "TEARDOWN" => Len(down'[client]) <= 1
    <3>1. ASSUME down[client] = <<>>
          PROVE  Len(down'[client]) <= 1
      BY <1>1, <1>15, <2>5, <3>1 DEF TypeOK
    <3> QED
      BY <1>11, <3>1
  <2>8. Answered'
    BY <1>2, <1>8, <2>2, <2>4, <2>6 DEF Answered, Fresh
  <2>9. Unsplit'
    BY <1>2, <1>7, <1>11, <2>2, <2>6, <2>7 DEF Unsplit
  <2>10. gui = "await" /\ awaiting = "SETUP" =>
           \A i \in 1..Len(down'[client]) :
             down'[client][i].whole /\ down'[client][i].ok =>
               srv'[client].rtp.setup /\ srv'[client].rtp.to = Told(down'[client][i])
    <3>1. ASSUME awaiting = "SETUP", h.reply.ok
          PROVE  srv'[client].rtp.setup /\ srv'[client].rtp.to = Told(h.reply)
      BY <1>6, <2>1, <2>2, <2>3, <3>1
    <3> QED
      BY <1>2, <1>8, <2>6, <3>1
  <2>11. gui = "await" /\ awaiting = "PLAY" => SetUpFor(client, receiver)' /\ Plays(client)'
    <3>1. ASSUME gui = "await", awaiting = "PLAY"
          PROVE  SetUpFor(client, receiver)' /\ Plays(client)'
      <4>1. P.rtp.setup /\ P.rtp.to = receiver
        BY <1>2, <1>4, <1>13, <3>1 DEF SetUpFor
      <4>2. s.rtp.setup /\ s.rtp.to = receiver /\ s.rtp.play
        BY <2>1, <2>2, <2>3, <3>1, <4>1
      <4> QED
        BY <1>2, <1>6, <4>2 DEF SetUpFor, Plays
    <3> QED
      BY <3>1
  <2>12. Streaming'
    BY <1>2, <1>7, <2>10, <2>11 DEF Streaming, SetUpFor, Told
  <2> QED
    BY <2>4, <2>8, <2>9, <2>12
<1> QED
  BY <1>9, <1>14, <1>15 DEF P

(* Whatever the server reads, the conversation stays in order.             *)
LEMMA ReadsStep ==
  ASSUME Conversation, ServerReads
  PROVE  Parsing' /\ Settled' /\ Answered' /\ Unsplit' /\ Streaming'
<1>1. TypeOK
  BY DEF Conversation, Typed
<1>2. Closed.open = FALSE
  BY DEF Closed, NewServer
<1>3. ASSUME NEW c \in Conns, ReadEnd(c)
      PROVE  Parsing' /\ Settled' /\ Answered' /\ Unsplit' /\ Streaming'
  <2>1. UNCHANGED <<guiVars, workerVars>> /\ down' = down /\ up' = up /\ srv' = [srv EXCEPT ![c] = Closed]
    BY <1>3 DEF ReadEnd
  <2>2. CASE c = client
    <3>1. ~srv'[client].open
      BY <1>1, <1>2, <2>1, <2>2 DEF TypeOK
    <3> QED
      BY <2>1, <3>1, ClosingStep
  <2>3. CASE c # client
    <3>1. client # NoConn => srv'[client] = srv[client]
      BY <1>1, <2>1, <2>3 DEF TypeOK
    <3> QED
      BY <2>1, <3>1, ElsewhereStep
  <2> QED
    BY <2>2, <2>3
<1>4. ASSUME NEW c \in Conns, NEW n \in 1..Len(up[c]), HandleRead(c, n)
      PROVE  Parsing' /\ Settled' /\ Answered' /\ Unsplit' /\ Streaming'
  <2>1. UNCHANGED <<guiVars, workerVars>>
    BY <1>4 DEF HandleRead
  <2>2. CASE c # client
    <3>1. client # NoConn =>
            up'[client] = up[client] /\ down'[client] = down[client] /\ srv'[client] = srv[client]
      <4>1. client # NoConn => client \in Conns \ {c}
        BY <1>1, <2>2 DEF TypeOK
      <4>2. up' = [up EXCEPT ![c] = SubSeq(@, n + 1, Len(@))]
        BY <1>4 DEF HandleRead
      <4>3. \E a : down' = down \/ down' = [down EXCEPT ![c] = a]
        BY <1>1, <1>4, Reads
      <4>4. \E s : srv' = [srv EXCEPT ![c] = s]
        BY <1>1, <1>4, Reads
      <4> QED
        BY <1>1, <4>1, <4>2, <4>3, <4>4 DEF TypeOK
    <3> QED
      BY <2>1, <3>1, ElsewhereStep
  <2>3. CASE c = client
    <3>1. client \in Conns /\ n \in 1..Len(up[client]) /\ HandleRead(client, n)
      BY <1>4, <2>3
    <3>2. CASE srv' = [srv EXCEPT ![client] = Closed] /\ down' = down
      <4>1. ~srv'[client].open
        BY <1>1, <1>2, <3>1, <3>2 DEF TypeOK
      <4> QED
        BY <2>1, <3>2, <4>1, ClosingStep
    <3>3. CASE ~(srv' = [srv EXCEPT ![client] = Closed] /\ down' = down)
      <4> DEFINE P == Parsed(client, n)
      <4>1. \/ Parsable(client, n) /\ srv' = [srv EXCEPT ![client] = P] /\ down' = down
            \/ Parsable(client, n) /\ srv' = [srv EXCEPT ![client] = Reset(P)] /\ down' = down
            \/ /\ Parsable(client, n) /\ P.gotCSeq
               /\ \E h \in Handle(P) :
                    /\ srv' = [srv EXCEPT ![client] = Reset(h.to)]
                    /\ down' = IF client \in peerOpen
                               THEN [down EXCEPT ![client] = Append(@, h.reply)] ELSE down
        BY <1>1, <3>1, <3>3, Reads
      <4>2. Parsable(client, n)
        BY <4>1
      <4>3. P \in Server
        BY <1>1, <3>1, <4>2, ParsedIs
      <4>4. \A t \in Server : Reset(t) \in Server
        BY DEF Reset, Server
      <4>5. \A h \in Handle(P) : h.to \in Server
        BY <4>3, HandlersAnswer
      <4>6. CASE srv' = [srv EXCEPT ![client] = P] /\ down' = down
        BY <3>1, <4>2, <4>3, <4>6, LiveRead
      <4>7. CASE srv' = [srv EXCEPT ![client] = Reset(P)] /\ down' = down
        BY <3>1, <4>2, <4>3, <4>4, <4>7, LiveRead
      <4>8. ASSUME P.gotCSeq, NEW h \in Handle(P), srv' = [srv EXCEPT ![client] = Reset(h.to)],
                   down' = IF client \in peerOpen
                           THEN [down EXCEPT ![client] = Append(@, h.reply)] ELSE down
            PROVE  Parsing' /\ Settled' /\ Answered' /\ Unsplit' /\ Streaming'
        <5>1. Reset(h.to) \in Server
          BY <4>4, <4>5, <4>8
        <5> QED
          BY <3>1, <4>2, <4>8, <5>1, LiveRead
      <4> QED
        BY <4>1, <4>6, <4>7, <4>8
    <3> QED
      BY <3>2, <3>3
  <2> QED
    BY <2>2, <2>3
<1> QED
  BY <1>3, <1>4 DEF ServerReads

(* The window gives its connection up.                                     *)
LEMMA LeaveStep ==
  ASSUME Conversation, Abandon \/ StopEnds
  PROVE  Parsing' /\ Settled' /\ Answered' /\ Unsplit' /\ Streaming'
<1>1. client' = NoConn /\ gui' \in {"connect", "start", "idle"} /\ thread' = thread
  BY DEF Abandon, StopEnds, workerVars
<1>2. gui' \in {"start", "idle"} => thread' # "running"
  BY <1>1 DEF Conversation, Typed, Calling, Abandon, StopEnds
<1> QED
  BY <1>1, <1>2 DEF Parsing, Settled, Answered, Unsplit, Streaming

(* A new connection has nothing under way and a server that rests.         *)
LEMMA ConnectStep ==
  ASSUME Conversation, NEW c \in Conns, Connect(c)
  PROVE  Parsing' /\ Settled' /\ Answered' /\ Unsplit' /\ Streaming'
<1> DEFINE new == NewServer(TRUE)
<1>1. new.open /\ new.state = "line" /\ ~new.gotCSeq
  BY DEF NewServer
<1>2. srv' = [srv EXCEPT ![c] = new]
  BY DEF Connect
<1>3. gui' = "OPTIONS" /\ client' = c /\ up' = [up EXCEPT ![c] = <<>>] /\ down' = [down EXCEPT ![c] = <<>>]
  BY DEF Connect
<1> HIDE DEF new
<1>4. srv'[c] = new /\ up'[c] = <<>> /\ down'[c] = <<>>
  BY <1>2, <1>3 DEF Conversation, Typed, TypeOK
<1> QED
  BY <1>1, <1>3, <1>4 DEF Parsing, Settled, Resting, Unread, Answered, Unsplit, Streaming, Methods

(* The server rests, so the request that is sent is the only one.          *)
LEMMA SendStep ==
  ASSUME Conversation, NEW m \in Methods, Send(m)
  PROVE  Parsing' /\ Settled' /\ Answered' /\ Unsplit' /\ Streaming'
<1>1. gui = m /\ gui' = "await" /\ awaiting' = m /\ client # NoConn
      /\ UNCHANGED <<client, settings, thread, receiver, down, srv>>
  BY DEF Send, workerVars
<1>2. /\ client \in Conns
      /\ Len(up'[client]) > Len(up[client])
      /\ \A i \in 1..Len(up[client]) : up'[client][i] = up[client][i]
      /\ \A i \in (Len(up[client]) + 1)..Len(up'[client]) :
           /\ up'[client][i].name = "request" <=> i = Len(up[client]) + 1
           /\ up'[client][i].of.method = m /\ up'[client][i].of.cseq = cseq'
      /\ Len(up[client]) \in Nat /\ Len(up'[client]) \in Nat
  <2>1. client \in Conns /\ up' \in [Conns -> Seq(Line)] /\ up \in [Conns -> Seq(Line)]
    BY SendLines DEF Conversation, Typed, TypeOK
  <2> QED
    BY <2>1, SendLines DEF Conversation
<1>3. Resting(client) /\ \A i \in 1..Len(down[client]) : ~down[client][i].whole
  <2>1. m \notin {"await", "stopWorker", "end"}
    BY DEF Methods
  <2> QED
    BY <1>1, <2>1 DEF Conversation, Settled
<1>4. Parsing'
  <2>1. ASSUME srv[client].open
        PROVE  /\ srv[client].state = "line" /\ ~srv[client].gotCSeq
               /\ \A i \in 1..Len(up[client]) : up[client][i].name # "request"
    BY <1>1, <1>3, <2>1 DEF Resting, Unread, Conversation, Parsing
  <2>2. ASSUME srv[client].open, NEW i \in 1..Len(up'[client]), NEW j \in 1..Len(up'[client]),
               up'[client][i].name = "request", i <= j
        PROVE  /\ up'[client][j].of.method = m /\ up'[client][j].of.cseq = cseq'
               /\ i < j => up'[client][j].name # "request"
    <3>1. i \notin 1..Len(up[client])
      BY <1>2, <2>1, <2>2
    <3>2. i \in (Len(up[client]) + 1)..Len(up'[client]) /\ j \in (Len(up[client]) + 1)..Len(up'[client])
      BY <1>2, <2>2, <3>1
    <3> QED
      BY <1>2, <2>2, <3>2
  <2> QED
    BY <1>1, <2>1, <2>2 DEF Parsing, Fresh
<1>5. Settled' /\ Answered'
  BY <1>1, <1>3 DEF Settled, Answered
<1>6. Unsplit'
  <2>1. m # "TEARDOWN" => down[client] = <<>>
    BY <1>1 DEF Conversation, Unsplit, Methods
  <2> QED
    BY <1>1, <2>1 DEF Unsplit
<1>7. Streaming'
  <2>1. m = "PLAY" => SetUpFor(client, receiver) /\ down[client] = <<>>
    BY <1>1 DEF Conversation, Streaming, Unsplit
  <2> QED
    BY <1>1, <1>3, <2>1 DEF Streaming, SetUpFor
<1> QED
  BY <1>4, <1>5, <1>6, <1>7

(* The first of a sequence that is not empty.                              *)
LEMMA HasHead ==
  ASSUME NEW S, NEW s \in Seq(S), s # <<>>
  PROVE  Len(s) \in Nat /\ 1 <= Len(s) /\ Head(s) = s[1]
  OBVIOUS

(* The window takes an answer, or a part of one, or the end.               *)
LEMMA TakeStep ==
  ASSUME Conversation, Receive \/ ReceivePart \/ ReceiveEnd
  PROVE  Parsing' /\ Settled' /\ Answered' /\ Unsplit' /\ Streaming'
<1>1. gui = "await" /\ UNCHANGED <<awaiting, cseq, client, thread, receiver, up, srv>>
  BY DEF Receive, ReceivePart, ReceiveEnd, workerVars
<1>2. TypeOK /\ client \in Conns /\ awaiting \in Methods /\ down[client] \in Seq(Answer)
  BY <1>1 DEF Conversation, Typed, TypeOK, Calling
<1>3. Parsing'
  BY <1>1 DEF Conversation, Parsing, Fresh
<1>4. gui' = Done(awaiting) \/ gui' = Thrown(awaiting)
  BY DEF Receive, ReceivePart, ReceiveEnd
<1>5. /\ gui' # "await" /\ gui' # "start"
      /\ awaiting = "TEARDOWN" => gui' = "stopWorker"
  BY <1>2, <1>4 DEF Done, Thrown, Methods
<1>6. Answered'
  BY <1>5 DEF Answered
<1>7. CASE awaiting = "TEARDOWN"
  BY <1>1, <1>3, <1>5, <1>6, <1>7 DEF Settled, Unsplit, Streaming
<1>8. CASE awaiting # "TEARDOWN"
  <2>1. Len(down[client]) <= 1 /\ \A i \in 1..Len(down[client]) : down[client][i].whole
    BY <1>1, <1>8 DEF Conversation, Unsplit
  <2>2. CASE ReceiveEnd
    <3>1. down[client] = <<>> /\ ~srv[client].open /\ down' = down /\ gui' = "stop"
      BY <1>8, <2>2 DEF ReceiveEnd, Thrown
    <3> QED
      BY <1>1, <1>3, <1>6, <3>1 DEF Settled, Resting, Unsplit, Streaming, Methods
  <2>3. CASE ReceivePart
    <3>1. down[client] # <<>> /\ gui' = "stop" /\ down' = [down EXCEPT ![client][1].whole = FALSE]
      BY <1>8, <2>3 DEF ReceivePart, Thrown
    <3>2. Len(down[client]) \in Nat /\ 1 <= Len(down[client]) /\ Len(down[client]) <= 1
      <4>1. Len(down[client]) \in Nat /\ 1 <= Len(down[client])
        BY ONLY <1>2, <3>1, HasHead, Zenon
      <4> QED
        BY <2>1, <4>1
    <3>3. Resting(client)
      BY <1>1, <2>1, <3>2 DEF Conversation, Answered
    <3>4. \A i \in 1..Len(down'[client]) : ~down'[client][i].whole
      <4> DEFINE part == [down[client][1] EXCEPT !.whole = FALSE]
                 parts == [down[client] EXCEPT ![1] = part]
      <4>1. part.whole = FALSE
        <5>1. down[client][1] \in Answer
          BY <1>2, <3>2
        <5> QED
          BY <5>1 DEF Answer
      <4>2. down'[client] = parts
        BY <1>2, <3>1 DEF TypeOK
      <4> HIDE DEF part
      <4>3. Len(parts) = Len(down[client]) /\ parts[1] = part
        BY <1>2, <3>2
      <4> QED
        BY <3>2, <4>1, <4>2, <4>3
    <3> QED
      BY <1>1, <1>3, <1>6, <3>1, <3>3, <3>4 DEF Settled, Resting, Unread, Unsplit, Streaming
  <2>4. CASE Receive
    <3> DEFINE a == Head(down[client])
    <3>1. down[client] # <<>> /\ down' = [down EXCEPT ![client] = Tail(@)]
      BY <2>4 DEF Receive
    <3>2. Len(down[client]) \in Nat /\ 1 <= Len(down[client]) /\ Len(down[client]) <= 1 /\ a = down[client][1]
      <4>1. Len(down[client]) \in Nat /\ 1 <= Len(down[client]) /\ a = down[client][1]
        BY ONLY <1>2, <3>1, HasHead, Zenon
      <4> QED
        BY <2>1, <4>1
    <3>3. down'[client] = <<>>
      BY <1>2, <3>1, <3>2 DEF TypeOK
    <3>4. Resting(client) /\ Fresh(a) /\ a.whole
      BY <1>1, <2>1, <3>2 DEF Conversation, Answered
    <3>5. Resting(client)'
      BY <1>1, <3>4 DEF Resting, Unread
    <3>6. Settled' /\ Unsplit'
      BY <1>1, <1>5, <3>3, <3>5 DEF Settled, Unsplit
    <3>7. \/ Accepted(a) /\ gui' = Done(awaiting) /\ Learn(a)
          \/ gui' = "stop"
      BY <1>8, <2>4 DEF Receive, Thrown
    <3>8. Streaming'
      <4>1. CASE gui' = "stop"
        BY <1>5, <4>1 DEF Streaming
      <4>2. CASE Accepted(a) /\ Learn(a) /\ gui' = Done(awaiting) /\ awaiting \in {"OPTIONS", "DESCRIBE"}
        BY <4>2 DEF Streaming, Done
      <4>3. CASE Accepted(a) /\ Learn(a) /\ gui' = Done(awaiting) /\ awaiting = "SETUP"
        <5>1. gui' = "worker"
          BY <4>3 DEF Done
        <5>2. a.method = "SETUP" /\ a.ok
          BY <3>4, <4>3 DEF Fresh, Accepted
        <5>3. SetUp(a)
          BY <4>3, <5>2 DEF Learn
        <5>4. Listening' = Told(a)
          <6>1. settings \in Settings
            BY <1>2 DEF TypeOK
          <6>2. CASE a.multicast
            BY <5>3, <6>1, <6>2 DEF SetUp, Listening, Told, Settings
          <6>3. CASE ~a.multicast
            <7>1. a.multicast = FALSE
              BY <1>2, <3>2, <6>3 DEF Answer
            <7> QED
              BY <5>3, <6>3, <7>1 DEF SetUp, Listening, Told
          <6> QED
            BY <6>2, <6>3
        <5>5. SetUpFor(client, Told(a))
          BY <1>1, <3>2, <3>4, <4>3, <5>2 DEF Conversation, Streaming
        <5> QED
          BY <1>1, <5>1, <5>4, <5>5 DEF Streaming, SetUpFor
      <4>4. CASE Accepted(a) /\ Learn(a) /\ gui' = Done(awaiting) /\ awaiting = "PLAY"
        <5>1. gui' = "idle"
          BY <4>4 DEF Done
        <5>2. SetUpFor(client, receiver) /\ Plays(client)
          BY <1>1, <3>1, <4>4 DEF Conversation, Streaming
        <5> QED
          BY <1>1, <5>1, <5>2 DEF Streaming, SetUpFor, Plays
      <4> QED
        BY <1>2, <1>8, <3>7, <4>1, <4>2, <4>3, <4>4 DEF Methods
    <3> QED
      BY <1>3, <1>6, <3>6, <3>8
  <2> QED
    BY <2>2, <2>3, <2>4
<1> QED
  BY <1>7, <1>8

(* Every step keeps the conversation in order.                             *)
LEMMA ConversationStep == Conversation /\ [Next]_vars => Conversation'
<1> SUFFICES ASSUME Conversation, [Next]_vars PROVE Conversation'
  OBVIOUS
<1>1. Typed'
  BY TypedStep, CallingStep DEF Conversation, Typed
<1>2. CASE UNCHANGED vars
  <2>1. Parsing' /\ Settled' /\ Answered' /\ Unsplit' /\ Streaming'
    BY <1>2, ElsewhereStep DEF vars
  <2> QED
    BY <1>1, <2>1 DEF Conversation
<1>3. CASE Aside
  BY <1>1, <1>3, AsideStep, AsideStreams DEF Conversation
<1>4. CASE Abandon \/ StopEnds
  BY <1>1, <1>4, LeaveStep DEF Conversation
<1>5. CASE \E c \in Conns : Connect(c)
  BY <1>1, <1>5, ConnectStep DEF Conversation
<1>6. CASE \E m \in Methods : Send(m)
  BY <1>1, <1>6, SendStep DEF Conversation
<1>7. CASE Receive \/ ReceivePart \/ ReceiveEnd
  BY <1>1, <1>7, TakeStep DEF Conversation
<1>8. CASE ServerReads
  BY <1>1, <1>8, ReadsStep DEF Conversation
<1> QED
  BY <1>2, <1>3, <1>4, <1>5, <1>6, <1>7, <1>8 DEF Next, Window, Clicks, Aside

(* Before anything is asked the conversation is in order.                  *)
LEMMA InitConversation == Init => Conversation
<1> SUFFICES ASSUME Init PROVE Conversation
  OBVIOUS
<1>1. gui = "idle" /\ client = NoConn /\ thread = "off"
  BY Zenon DEF Init
<1> QED
  BY <1>1, InitTyped DEF Conversation, Parsing, Settled, Answered, Unsplit, Streaming

(* The conversation is in order in every reachable state.                  *)
LEMMA AlwaysConversation == Spec => []Conversation
  BY InitConversation, ConversationStep, PTL DEF Spec

(* No answer is taken for that of another request: a whole answer the      *)
(* window finds is of the method and the CSeq it waits for, whatever TCP   *)
(* splits, whatever failed before and however the counter wraps.           *)
THEOREM AnswersSafe == Spec => []AnswersAreAwaited
<1>1. Conversation => AnswersAreAwaited
  <2> SUFFICES ASSUME Conversation, gui = "await", NEW i \in DOMAIN down[client], down[client][i].whole
               PROVE  down[client][i].method = awaiting /\ down[client][i].cseq = cseq
    BY DEF AnswersAreAwaited
  <2>1. down[client] \in Seq(Answer)
    BY DEF Conversation, Typed, TypeOK, Calling
  <2>2. i \in 1..Len(down[client])
    BY <2>1
  <2> QED
    BY <2>2 DEF Conversation, Answered, Fresh
<1> QED
  BY AlwaysConversation, <1>1, PTL

(* A stream that runs in an idle window is sent to where its receiver      *)
(* listens, for as long as the server keeps the connection.                *)
THEOREM ReceiverReached == Spec => []PlayedReachesReceiver
<1>1. Conversation => PlayedReachesReceiver
  BY DEF Conversation, Typed, Calling, Streaming, SetUpFor, Plays, PlayedReachesReceiver
<1> QED
  BY AlwaysConversation, <1>1, PTL

-----------------------------------------------------------------------------
(* RtpStream: a frame on its way.                                          *)

(* The first byte of a frame of n bytes that is sent, the bytes of header  *)
(* in each of its packets, and the first and the last byte one carries.    *)
First(n) == IF Single(n) THEN 1 ELSE 2
Skip(n) == IF Single(n) THEN 0 ELSE 2
From(n, p) == p.data[Skip(n) + 1].at
To(n, p) == From(n, p) + Len(p.data) - Skip(n) - 1
ByteOf(s, f, k) == [of |-> s, frame |-> f, at |-> k]
SizeOf(s, f) == sizes[s][f]

Building(s) == sender[s].pc \in {"size", "copy", "header", "send"}

(* Where a thread is in its frame.                                         *)
Placed(s) ==
  /\ \A f \in 1..Frame(s) : SizeOf(s, f) > 1
  /\ Building(s) => /\ Frame(s) > 0
                    /\ First(SizeOf(s, Frame(s))) - 1 <= sender[s].at
                    /\ sender[s].at < SizeOf(s, Frame(s))
                    /\ Single(SizeOf(s, Frame(s))) => sender[s].at = 0
  /\ sender[s].pc = "read" /\ Frame(s) > 0 => sender[s].at = SizeOf(s, Frame(s))
  /\ \A i \in DOMAIN wire[s] : wire[s][i].frame \in 1..Frame(s)
  /\ rx[s].heard \subseteq 1..Frame(s) /\ hurt[s] \subseteq 1..Frame(s)
  /\ wire[s] # <<>> => rx[s].running

-----------------------------------------------------------------------------
(* The operators of the model.                                             *)

(* The bytes of the current frame from one to another.                     *)
LEMMA BytesAre ==
  ASSUME StreamTypeOK, NEW s \in Senders, NEW j \in Nat, NEW k \in Nat, j <= k + 1
  PROVE  /\ Bytes(s, j, k) \in Seq(Byte) /\ Len(Bytes(s, j, k)) = k + 1 - j
         /\ \A i \in 1..(k + 1 - j) : Bytes(s, j, k)[i] = ByteOf(s, Frame(s), j + i - 1)
<1>1. Frame(s) \in Nat
  BY DEF StreamTypeOK, Frame
<1>2. \A i \in 1..(k + 1 - j) : ByteOf(s, Frame(s), j + i - 1) \in Byte
  BY <1>1 DEF ByteOf, Byte
<1>3. Bytes(s, j, k) = [i \in 1..(k + 1 - j) |-> ByteOf(s, Frame(s), j + i - 1)]
  BY DEF Bytes, ByteOf
<1> HIDE DEF Bytes
<1>4. k + 1 - j \in Nat
  OBVIOUS
<1>5. Bytes(s, j, k) \in Seq(Byte)
  BY <1>2, <1>3, <1>4, IsASeq
<1> QED
  BY <1>3, <1>4, <1>5, LenProperties

(* The frame being cut has at least one byte left, and the next packet     *)
(* takes all of it or as much as fits.                                     *)
LEMMA Cut ==
  ASSUME StreamTypeOK, NEW s \in Senders, Placed(s), Building(s)
  PROVE  LET n == SizeOf(s, Frame(s)) IN
         /\ Frame(s) \in Nat /\ Frame(s) > 0 /\ n \in Nat /\ sender[s].at \in Nat
         /\ Advance(s) \in Nat /\ 0 < Advance(s) /\ sender[s].at + Advance(s) <= n
         /\ Skip(n) + Advance(s) <= MaxPayload
         /\ IsLast(s) <=> sender[s].at + Advance(s) = n
         /\ Single(n) => Advance(s) = n
<1> DEFINE n == SizeOf(s, Frame(s))
           at == sender[s].at
<1>1. Frame(s) \in Nat /\ Frame(s) > 0 /\ at \in Nat
  BY DEF StreamTypeOK, Frame, Placed
<1>2. n \in Nat
  BY <1>1 DEF StreamTypeOK, SizeOf, Frame
<1>3. First(n) - 1 <= at /\ at < n /\ (Single(n) => at = 0)
  BY DEF Placed
<1>4. Remaining(s) = n - at
  BY DEF Remaining, SizeOf
<1>5. /\ IsLast(s) <=> n <= MaxPayload \/ n - at + 2 <= MaxPayload
      /\ Advance(s) = IF n <= MaxPayload \/ n - at + 2 <= MaxPayload THEN n - at ELSE MaxPayload - 2
  BY <1>4 DEF Advance, IsLast, Single, SizeOf
<1> HIDE DEF n, at
<1>6. /\ Advance(s) \in Nat /\ 0 < Advance(s) /\ at + Advance(s) <= n
      /\ Skip(n) + Advance(s) <= MaxPayload
      /\ IsLast(s) <=> at + Advance(s) = n
      /\ Single(n) => Advance(s) = n
  <2>1. MaxPayload \in Nat /\ MaxPayload > 2
    BY StreamAssumption
  <2>2. CASE n <= MaxPayload
    BY <1>1, <1>2, <1>3, <1>5, <2>1, <2>2 DEF Single, Skip
  <2>3. CASE ~(n <= MaxPayload)
    BY <1>1, <1>2, <1>3, <1>5, <2>1, <2>3 DEF Single, Skip
  <2> QED
    BY <2>2, <2>3
<1> QED
  BY <1>1, <1>2, <1>6 DEF n, at

(* What the next packet is to carry.                                       *)
LEMMA PieceIs ==
  ASSUME StreamTypeOK, NEW s \in Senders, Placed(s), Building(s)
  PROVE  LET n == SizeOf(s, Frame(s)) IN
         /\ Piece(s) \in Seq(Byte) /\ Len(Piece(s)) = Skip(n) + Advance(s)
         /\ \A i \in (Skip(n) + 1)..(Skip(n) + Advance(s)) :
              Piece(s)[i] = ByteOf(s, Frame(s), sender[s].at + i - Skip(n))
<1> DEFINE n == SizeOf(s, Frame(s))
           at == sender[s].at
           body == Bytes(s, at + 1, at + Advance(s))
           zero == Bytes(s, 0, 0)
<1>1. at \in Nat /\ Advance(s) \in Nat /\ 0 < Advance(s) /\ n \in Nat
  BY Cut
<1>2. /\ body \in Seq(Byte) /\ Len(body) = Advance(s)
      /\ \A i \in 1..Advance(s) : body[i] = ByteOf(s, Frame(s), at + i)
  <2>1. at + 1 \in Nat /\ at + Advance(s) \in Nat /\ at + 1 <= at + Advance(s) + 1
    BY <1>1
  <2> HIDE DEF at
  <2>2. /\ body \in Seq(Byte) /\ Len(body) = at + Advance(s) + 1 - (at + 1)
        /\ \A i \in 1..(at + Advance(s) + 1 - (at + 1)) : body[i] = ByteOf(s, Frame(s), at + 1 + i - 1)
    BY <2>1, BytesAre
  <2>3. at + Advance(s) + 1 - (at + 1) = Advance(s) /\ \A i \in Nat : at + 1 + i - 1 = at + i
    BY <1>1
  <2> HIDE DEF body
  <2> QED
    BY <1>1, <2>2, <2>3
<1>3. zero \in Seq(Byte) /\ Len(zero) <= 1 /\ 1 <= Len(zero)
  BY BytesAre
<1>4. Piece(s) = IF Single(n) THEN body ELSE FuA(s) \o body
  BY DEF Piece, SizeOf
<1>5. FuA(s) = zero \o zero
  BY DEF FuA
<1> HIDE DEF n, body, zero
<1>6. FuA(s) \in Seq(Byte) /\ Len(FuA(s)) <= 2 /\ 2 <= Len(FuA(s))
  BY <1>3, <1>5, ConcatProperties
<1>7. CASE Single(n)
  BY <1>1, <1>2, <1>4, <1>7 DEF Skip, n
<1>8. CASE ~Single(n)
  <2>1. /\ Piece(s) \in Seq(Byte) /\ Len(Piece(s)) = Len(FuA(s)) + Len(body)
        /\ \A i \in 1..(Len(FuA(s)) + Len(body)) :
             Piece(s)[i] = IF i <= Len(FuA(s)) THEN FuA(s)[i] ELSE body[i - Len(FuA(s))]
    BY <1>2, <1>4, <1>6, <1>8, ConcatProperties
  <2>2. Len(FuA(s)) <= 2 /\ 2 <= Len(FuA(s)) /\ Len(FuA(s)) \in Nat /\ Skip(n) = 2
    BY <1>6, <1>8 DEF Skip
  <2>3. /\ Piece(s) \in Seq(Byte) /\ Len(Piece(s)) = 2 + Advance(s)
        /\ \A i \in 3..(2 + Advance(s)) : Piece(s)[i] = ByteOf(s, Frame(s), at + i - 2)
    <3>1. \A i \in 3..(2 + Advance(s)) : Piece(s)[i] = body[i - 2] /\ i - 2 \in 1..Advance(s)
      BY <1>1, <1>2, <2>1, <2>2
    <3>2. \A i \in 3..(2 + Advance(s)) : at + (i - 2) = at + i - 2
      BY <1>1
    <3> QED
      BY <1>1, <1>2, <2>1, <2>2, <3>1, <3>2
  <2> QED
    BY <2>2, <2>3 DEF n
<1> QED
  BY <1>7, <1>8 DEF n

(* rtp_pkt is a packet's worth of bytes.                                   *)
LEMMA PktIs ==
  ASSUME StreamTypeOK
  PROVE  /\ pkt.data \in Seq(Byte) /\ Len(pkt.data) = MaxPayload
         /\ pkt.size \in 0..MaxPayload /\ pkt.last \in BOOLEAN /\ pkt.marker \in BOOLEAN
<1>1. /\ pkt.data \in [1..MaxPayload -> Byte] /\ MaxPayload \in Nat
      /\ pkt.size \in 0..MaxPayload /\ pkt.last \in BOOLEAN /\ pkt.marker \in BOOLEAN
  BY StreamAssumption DEF StreamTypeOK
<1>2. pkt.data = [i \in 1..MaxPayload |-> pkt.data[i]] /\ \A i \in 1..MaxPayload : pkt.data[i] \in Byte
  BY <1>1
<1>3. [i \in 1..MaxPayload |-> pkt.data[i]] \in Seq(Byte)
  BY <1>1, <1>2, IsASeq
<1>4. pkt.data \in Seq(Byte) /\ DOMAIN pkt.data = 1..MaxPayload
  BY <1>1, <1>2, <1>3
<1> QED
  BY <1>1, <1>4, LenProperties

(* What goes out is a packet, whatever the threads have left in rtp_pkt.   *)
LEMMA BuiltIs ==
  ASSUME StreamTypeOK, NEW s \in Senders
  PROVE  Built(s) \in Packet /\ Built(s).frame = Frame(s)
<1>1. pkt.size \in 0..MaxPayload /\ pkt.marker \in BOOLEAN /\ MaxPayload \in Nat
  BY PktIs, StreamAssumption
<1>2. \A i \in 1..pkt.size : pkt.data[i] \in Byte
  BY <1>1, PktIs
<1>3. SubSeq(pkt.data, 1, pkt.size) \in Seq(Byte)
  BY <1>1, <1>2, SubSeqProperties
<1>4. Frame(s) \in Nat
  BY DEF StreamTypeOK, Frame
<1> QED
  BY <1>1, <1>3, <1>4 DEF Built, Packet

(* Payloads that are joined are bytes one behind the other.                *)
LEMMA JoinedIs ==
  ASSUME NEW r \in Receiver, NEW p \in Packet
  PROVE  LET k == Offset(r, p)
             rest == IF k < Len(p.data) THEN Len(p.data) - k ELSE 0 IN
         /\ k \in {0, 2} /\ Joined(r, p) \in Seq(Byte) /\ Len(Joined(r, p)) = Len(r.data) + rest
         /\ \A i \in 1..(Len(r.data) + rest) :
              Joined(r, p)[i] = IF i <= Len(r.data) THEN r.data[i] ELSE p.data[i - Len(r.data) + k]
<1> DEFINE k == Offset(r, p)
           rest == IF k < Len(p.data) THEN Len(p.data) - k ELSE 0
           tail == SubSeq(p.data, k + 1, Len(p.data))
<1>1. /\ k \in {0, 2} /\ r.data \in Seq(Byte) /\ p.data \in Seq(Byte)
      /\ Len(r.data) \in Nat /\ Len(p.data) \in Nat
  BY DEF Receiver, Packet, Offset
<1> HIDE DEF k
<1>2. /\ tail \in Seq(Byte) /\ Len(tail) = rest
      /\ \A i \in 1..rest : tail[i] = p.data[k + i]
  <2>1. \A i \in (k + 1)..Len(p.data) : p.data[i] \in Byte
    BY <1>1
  <2>2. /\ tail \in Seq(Byte)
        /\ Len(tail) = IF k + 1 <= Len(p.data) THEN Len(p.data) - (k + 1) + 1 ELSE 0
        /\ \A i \in 1..(Len(p.data) - (k + 1) + 1) : tail[i] = p.data[k + 1 + i - 1]
    BY <1>1, <2>1, SubSeqProperties
  <2>3. \A i \in Nat : k + 1 + i - 1 = k + i
    BY <1>1
  <2> HIDE DEF tail
  <2> QED
    BY <1>1, <2>2, <2>3
<1>3. Joined(r, p) = r.data \o tail
  BY DEF Joined, k
<1>4. rest \in Nat
  BY <1>1
<1> HIDE DEF tail, rest
<1>5. /\ Joined(r, p) \in Seq(Byte) /\ Len(Joined(r, p)) = Len(r.data) + rest
      /\ \A i \in 1..(Len(r.data) + rest) :
           Joined(r, p)[i] = IF i <= Len(r.data) THEN r.data[i] ELSE tail[i - Len(r.data)]
  <2>1. /\ r.data \o tail \in Seq(Byte) /\ Len(r.data \o tail) = Len(r.data) + Len(tail)
        /\ \A i \in 1..(Len(r.data) + Len(tail)) :
             (r.data \o tail)[i] = IF i <= Len(r.data) THEN r.data[i] ELSE tail[i - Len(r.data)]
    BY <1>1, <1>2, ConcatProperties
  <2> QED
    BY <1>2, <1>3, <2>1
<1>6. \A i \in 1..(Len(r.data) + rest) :
        i <= Len(r.data) \/ (i - Len(r.data) \in 1..rest /\ k + (i - Len(r.data)) = i - Len(r.data) + k)
  BY <1>1, <1>4
<1>7. \A i \in 1..(Len(r.data) + rest) :
        Joined(r, p)[i] = IF i <= Len(r.data) THEN r.data[i] ELSE p.data[i - Len(r.data) + k]
  BY <1>2, <1>5, <1>6
<1> QED
  BY <1>1, <1>5, <1>7 DEF k, rest

(* After a marker, or too much, the receiver joins from nothing.           *)
LEMMA RestartIs ==
  ASSUME NEW r \in Receiver
  PROVE  /\ Restart(r) \in Receiver /\ Restart(r).data = <<>> /\ ~Restart(r).first
         /\ Restart(r).running = r.running /\ Restart(r).heard = r.heard
         /\ [Restart(r) EXCEPT !.heard = {}] \in Receiver
         /\ [Restart(r) EXCEPT !.heard = {}].data = <<>> /\ ~[Restart(r) EXCEPT !.heard = {}].first
         /\ [Restart(r) EXCEPT !.heard = {}].running = r.running
         /\ [Restart(r) EXCEPT !.heard = {}].heard = {}
<1> DEFINE none == <<>>
           e == [r EXCEPT !.data = none, !.first = FALSE]
           h == [e EXCEPT !.heard = {}]
<1>1. none \in Seq(Byte)
  OBVIOUS
<1> HIDE DEF none
<1>2. e \in Receiver /\ e.data = none /\ ~e.first /\ e.running = r.running /\ e.heard = r.heard
  BY <1>1 DEF Receiver
<1>3. Restart(r) = e
  BY DEF Restart, none
<1> HIDE DEF e
<1>4. h \in Receiver /\ h.data = none /\ ~h.first /\ h.running = r.running /\ h.heard = {}
  BY <1>2 DEF Receiver
<1> QED
  BY <1>2, <1>3, <1>4 DEF none

-----------------------------------------------------------------------------
(* Types.                                                                  *)
Placing == \A s \in Senders : Placed(s)

(* The lengths of sequences after their front has gone.                    *)
LEMMA TailIs ==
  ASSUME NEW S, NEW q \in Seq(S), q # <<>>
  PROVE  /\ Tail(q) \in Seq(S) /\ Head(q) = q[1] /\ q[1] \in S
         /\ Len(q) \in Nat /\ Len(q) > 0 /\ Len(Tail(q)) = Len(q) - 1
         /\ \A i \in 1..(Len(q) - 1) : Tail(q)[i] = q[i + 1]
  BY HeadTailProperties

(* Handling a frame keeps the types.                                       *)
LEMMA SenderTyped ==
  ASSUME StreamTypeOK, Placing, NEW s \in Senders,
         HandleFrame(s) \/ SetSize(s) \/ CopyPayload(s) \/ SetRtpHeader(s) \/ SendRtpPacket(s) \/ SendFails(s)
  PROVE  StreamTypeOK'
<1>1. CASE HandleFrame(s)
  <2>1. Frame(s) \in Nat /\ SizesOf[s] \in Seq(SUBSET (Nat \ {0, 1})) /\ Frame(s) + 1 \in 1..Len(SizesOf[s])
    <3>1. sizes[s] \in Seq(Nat) /\ SizesOf[s] \in Seq(SUBSET (Nat \ {0, 1}))
      BY StreamAssumption DEF StreamTypeOK
    <3>2. Frame(s) < Len(SizesOf[s])
      BY <1>1 DEF HandleFrame
    <3> QED
      BY <3>1, <3>2 DEF Frame
  <2>2. SizesOf[s][Frame(s) + 1] \subseteq Nat
    BY <2>1
  <2>3. PICK n \in SizesOf[s][Frame(s) + 1] :
          /\ sizes' = [sizes EXCEPT ![s] = Append(@, n)]
          /\ sender' = [sender EXCEPT ![s] = [pc |-> "size", at |-> IF Single(n) THEN 0 ELSE 1]]
    BY <1>1 DEF HandleFrame
  <2>4. n \in Nat /\ sizes[s] \in Seq(Nat)
    BY <2>2 DEF StreamTypeOK
  <2>5. Append(sizes[s], n) \in Seq(Nat)
    BY <2>4
  <2>6. sizes' \in [Senders -> Seq(Nat)]
    BY <2>3, <2>5 DEF StreamTypeOK
  <2>7. sender' \in [Senders -> [pc : {"read", "size", "copy", "header", "send", "done"}, at : Nat]]
    BY <2>3 DEF StreamTypeOK
  <2>8. pkt' = pkt /\ wire' = wire /\ rx' = rx /\ hurt' = hurt
    BY <1>1 DEF HandleFrame
  <2>9. /\ pkt' \in [data : [1..MaxPayload -> Byte], size : 0..MaxPayload, last : BOOLEAN, marker : BOOLEAN]
        /\ wire' \in [Senders -> Seq(Packet)] /\ hurt' \in [Senders -> SUBSET Nat]
    BY <2>8 DEF StreamTypeOK
  <2>10. rx' \in [Senders -> Receiver] /\ \A t \in Senders : Len(rx'[t].data) < MaxFrame
    BY <2>8 DEF StreamTypeOK
  <2> QED
    BY ONLY <2>6, <2>7, <2>9, <2>10 DEF StreamTypeOK
<1>2. CASE SetSize(s) \/ CopyPayload(s) \/ SetRtpHeader(s) \/ SendFails(s)
  <2>1. sender' \in [Senders -> [pc : {"read", "size", "copy", "header", "send", "done"}, at : Nat]]
    <3>1. PICK there \in {"copy", "header", "send", "done"} : sender' = [sender EXCEPT ![s].pc = there]
      BY <1>2 DEF SetSize, CopyPayload, SetRtpHeader, SendFails, At
    <3>2. [sender[s] EXCEPT !.pc = there] \in [pc : {"read", "size", "copy", "header", "send", "done"}, at : Nat]
      <4>1. sender[s] \in [pc : {"read", "size", "copy", "header", "send", "done"}, at : Nat]
        BY DEF StreamTypeOK
      <4> QED
        BY ONLY <4>1, there \in {"copy", "header", "send", "done"}
    <3> QED
      BY <3>1, <3>2 DEF StreamTypeOK
  <2>2. pkt' \in [data : [1..MaxPayload -> Byte], size : 0..MaxPayload, last : BOOLEAN, marker : BOOLEAN]
    <3>1. CASE SetRtpHeader(s) \/ SendFails(s)
      BY <3>1 DEF StreamTypeOK, SetRtpHeader, SendFails
    <3>2. CASE SetSize(s) \/ CopyPayload(s)
      <4>1. Building(s) /\ Placed(s)
        BY <3>2 DEF Building, SetSize, CopyPayload, At, Placing
      <4>2. Piece(s) \in Seq(Byte) /\ Len(Piece(s)) \in 0..MaxPayload
        BY <4>1, PieceIs, Cut, StreamAssumption
      <4>3. CASE SetSize(s)
        <5>1. pkt' = [pkt EXCEPT !.size = Len(Piece(s)), !.last = IsLast(s)]
          BY <4>3 DEF SetSize
        <5>2. IsLast(s) \in BOOLEAN
          BY DEF IsLast
        <5> QED
          BY <4>2, <5>1, <5>2 DEF StreamTypeOK
      <4>4. CASE CopyPayload(s)
        <5> DEFINE old == SubSeq(pkt.data, Len(Piece(s)) + 1, Len(pkt.data))
                   new == Piece(s) \o old
        <5>1. pkt' = [pkt EXCEPT !.data = new]
          BY <4>4 DEF CopyPayload
        <5>2. pkt.data \in Seq(Byte) /\ Len(pkt.data) = MaxPayload /\ MaxPayload \in Nat
          BY PktIs, StreamAssumption
        <5>3. old \in Seq(Byte) /\ Len(old) = MaxPayload - Len(Piece(s))
          <6>1. \A i \in (Len(Piece(s)) + 1)..MaxPayload : pkt.data[i] \in Byte
            BY <4>2, <5>2
          <6>2. old \in Seq(Byte)
                /\ Len(old) = IF Len(Piece(s)) + 1 <= MaxPayload THEN MaxPayload - (Len(Piece(s)) + 1) + 1 ELSE 0
            BY <4>2, <5>2, <6>1, SubSeqProperties
          <6> QED
            BY <4>2, <5>2, <6>2
        <5> HIDE DEF old
        <5>4. new \in Seq(Byte) /\ Len(new) = MaxPayload
          BY <4>2, <5>2, <5>3, ConcatProperties
        <5>5. new \in [1..MaxPayload -> Byte]
          BY <5>4, LenProperties
        <5> HIDE DEF new
        <5> QED
          BY <5>1, <5>5 DEF StreamTypeOK
      <4> QED
        BY <3>2, <4>3, <4>4
    <3> QED
      BY <1>2, <3>1, <3>2
  <2> QED
    BY <1>2, <2>1, <2>2 DEF StreamTypeOK, SetSize, CopyPayload, SetRtpHeader, SendFails
<1>3. CASE SendRtpPacket(s)
  <2>1. Building(s) /\ Placed(s)
    BY <1>3 DEF Building, SendRtpPacket, Placing
  <2>2. sender[s].at + Advance(s) \in Nat
    BY <2>1, Cut
  <2>3. sender' \in [Senders -> [pc : {"read", "size", "copy", "header", "send", "done"}, at : Nat]]
    BY <1>3, <2>2 DEF StreamTypeOK, SendRtpPacket
  <2>4. Built(s) \in Packet /\ wire[s] \in Seq(Packet) /\ Frame(s) \in Nat
    BY BuiltIs, <2>1, Cut DEF StreamTypeOK
  <2>5. Append(wire[s], Built(s)) \in Seq(Packet)
    BY <2>4
  <2>6. wire' \in [Senders -> Seq(Packet)]
    BY <1>3, <2>5 DEF StreamTypeOK, SendRtpPacket
  <2>7. hurt' \in [Senders -> SUBSET Nat]
    BY <1>3, <2>4 DEF StreamTypeOK, SendRtpPacket
  <2> QED
    BY <1>3, <2>3, <2>6, <2>7 DEF SendRtpPacket, StreamTypeOK
<1> QED
  BY <1>1, <1>2, <1>3

(* So do the network and the receiver.                                     *)
LEMMA ReceiverTyped ==
  ASSUME StreamTypeOK, NEW s \in Senders,
         Lose(s) \/ Overtake(s) \/ ReceivePacket(s) \/ ReceiverEnds(s)
  PROVE  StreamTypeOK'
<1>1. wire[s] \in Seq(Packet)
  BY DEF StreamTypeOK
<1>2. CASE Lose(s)
  <2>1. Tail(wire[s]) \in Seq(Packet) /\ Head(wire[s]).frame \in Nat
    <3>1. wire[s] # <<>>
      BY <1>2 DEF Lose
    <3>2. Tail(wire[s]) \in Seq(Packet) /\ Head(wire[s]) \in Packet
      BY <1>1, <3>1, TailIs
    <3> QED
      BY <3>2 DEF Packet
  <2>2. wire' \in [Senders -> Seq(Packet)] /\ hurt' \in [Senders -> SUBSET Nat]
    BY <1>2, <2>1 DEF Lose, StreamTypeOK
  <2> QED
    BY <1>2, <2>2 DEF Lose, StreamTypeOK
<1>3. CASE Overtake(s)
  <2> DEFINE two == <<wire[s][2], wire[s][1]>>
             more == SubSeq(wire[s], 3, Len(wire[s]))
  <2>1. wire[s][1] \in Packet /\ wire[s][2] \in Packet /\ Len(wire[s]) \in Nat
    BY <1>1, <1>3 DEF Overtake
  <2>2. two \in Seq(Packet)
    BY <2>1
  <2>3. more \in Seq(Packet)
    <3>1. \A i \in 3..Len(wire[s]) : wire[s][i] \in Packet
      BY <1>1, <2>1
    <3> QED
      BY <2>1, <3>1, SubSeqProperties
  <2> HIDE DEF two, more
  <2>4. two \o more \in Seq(Packet)
    BY <2>2, <2>3
  <2>5. wire' = [wire EXCEPT ![s] = two \o more]
    BY <1>3 DEF Overtake, two, more
  <2>6. hurt' \in [Senders -> SUBSET Nat]
    BY <1>3, <2>1 DEF Overtake, StreamTypeOK, Packet
  <2>7. wire' \in [Senders -> Seq(Packet)]
    BY <2>4, <2>5 DEF StreamTypeOK
  <2>8. UNCHANGED <<sender, sizes, pkt, rx>>
    BY <1>3 DEF Overtake
  <2> QED
    BY <2>6, <2>7, <2>8 DEF StreamTypeOK
<1>4. CASE ReceivePacket(s)
  <2> DEFINE p == Head(wire[s])
             r == [rx[s] EXCEPT !.offset = Offset(rx[s], p), !.heard = @ \cup {p.frame}]
  <2>1. p \in Packet /\ Tail(wire[s]) \in Seq(Packet)
    BY <1>1, <1>4, TailIs DEF ReceivePacket
  <2>2. rx[s] \in Receiver /\ Len(rx[s].data) < MaxFrame /\ MaxFrame \in Nat /\ 0 < MaxFrame
    BY StreamAssumption DEF StreamTypeOK
  <2>3. Offset(rx[s], p) \in {0, 2}
    BY <2>2 DEF Offset, Receiver
  <2>4. r \in Receiver
    BY <2>1, <2>2, <2>3 DEF Receiver, Packet
  <2>5. Joined(r, p) \in Seq(Byte) /\ Len(Joined(r, p)) \in Nat
    BY <2>1, <2>4, JoinedIs
  <2>6. rx' = [rx EXCEPT ![s] =
          IF TooLong(r, p) THEN Restart(r)
          ELSE IF p.marker THEN [Restart(r) EXCEPT !.heard = {}]
          ELSE [r EXCEPT !.data = Joined(r, p), !.first = TRUE]]
    BY <1>4 DEF ReceivePacket
  <2> HIDE DEF r, p
  <2>7. rx'[s] \in Receiver /\ Len(rx'[s].data) < MaxFrame
    <3>1. CASE TooLong(r, p)
      <4>1. rx'[s] = Restart(r)
        BY <2>6, <3>1 DEF StreamTypeOK
      <4>2. Restart(r) \in Receiver /\ Restart(r).data = <<>>
        BY <2>4, RestartIs
      <4> QED
        BY <2>2, <4>1, <4>2
    <3>2. CASE ~TooLong(r, p) /\ p.marker
      <4>1. rx'[s] = [Restart(r) EXCEPT !.heard = {}]
        BY <2>6, <3>2 DEF StreamTypeOK
      <4>2. [Restart(r) EXCEPT !.heard = {}] \in Receiver /\ [Restart(r) EXCEPT !.heard = {}].data = <<>>
        BY <2>4, RestartIs
      <4> QED
        BY <2>2, <4>1, <4>2
    <3>3. CASE ~TooLong(r, p) /\ ~p.marker
      <4>1. Len(Joined(r, p)) < MaxFrame
        BY <2>2, <2>5, <3>3 DEF TooLong
      <4> QED
        BY <2>2, <2>4, <2>5, <2>6, <3>3, <4>1 DEF StreamTypeOK, Receiver
    <3> QED
      BY <3>1, <3>2, <3>3
  <2>8. \A t \in Senders : t # s => rx'[t] = rx[t]
    BY <2>6 DEF StreamTypeOK
  <2>9. rx' \in [Senders -> Receiver] /\ \A t \in Senders : Len(rx'[t].data) < MaxFrame
    BY <2>6, <2>7, <2>8 DEF StreamTypeOK
  <2>10. wire' \in [Senders -> Seq(Packet)]
    BY <1>4, <2>1 DEF ReceivePacket, StreamTypeOK
  <2> QED
    BY <1>4, <2>9, <2>10 DEF ReceivePacket, StreamTypeOK
<1>5. CASE ReceiverEnds(s)
  <2>1. [rx[s] EXCEPT !.running = FALSE] \in Receiver
    <3>1. rx[s] \in Receiver
      BY DEF StreamTypeOK
    <3> QED
      BY <3>1 DEF Receiver
  <2>2. rx' = [rx EXCEPT ![s] = [rx[s] EXCEPT !.running = FALSE]]
    BY <1>5 DEF ReceiverEnds
  <2>3. [rx[s] EXCEPT !.running = FALSE].data = rx[s].data
    BY DEF StreamTypeOK, Receiver
  <2>4. rx' \in [Senders -> Receiver] /\ \A t \in Senders : rx'[t].data = rx[t].data
    BY <2>1, <2>2, <2>3 DEF StreamTypeOK
  <2>5. wire' \in [Senders -> Seq(Packet)]
    BY <1>5 DEF ReceiverEnds, StreamTypeOK
  <2> QED
    BY <1>5, <2>4, <2>5 DEF ReceiverEnds, StreamTypeOK
<1> QED
  BY <1>2, <1>3, <1>4, <1>5

-----------------------------------------------------------------------------
(* What the inductive invariant says of a thread's packets on their way.   *)

FrameAt(s, i) == wire[s][i].frame
SizeAt(s, i) == SizeOf(s, FrameAt(s, i))
FromAt(s, i) == From(SizeAt(s, i), wire[s][i])
ToAt(s, i) == To(SizeAt(s, i), wire[s][i])
Sound(s, i) == FrameAt(s, i) \notin hurt[s]
(* How much of a frame has been sent.                                      *)
SentUpTo(s, f) == IF f = Frame(s) THEN sender[s].at ELSE SizeOf(s, f)

(* A packet carries the bytes of its frame, and the marker says whether it *)
(* carries the last one.                                                   *)
Carries(s, n, p) ==
  /\ Skip(n) < Len(p.data) /\ Len(p.data) <= MaxPayload
  /\ First(n) <= From(n, p) /\ To(n, p) <= n
  /\ p.marker <=> To(n, p) = n
  /\ \A i \in (Skip(n) + 1)..Len(p.data) :
       p.data[i] = ByteOf(s, p.frame, From(n, p) + i - Skip(n) - 1)
  /\ Single(n) => From(n, p) = 1 /\ To(n, p) = n
CarriesAt(s, i) == Carries(s, SizeAt(s, i), wire[s][i])
Carried(s) == \A i \in 1..Len(wire[s]) : Sound(s, i) => CarriesAt(s, i)

(* Only what is hurt is out of order.                                      *)
Sorted(s) == \A i, j \in 1..Len(wire[s]) :
  i < j /\ FrameAt(s, i) > FrameAt(s, j) => ~Sound(s, i) /\ ~Sound(s, j)

(* A packet of a frame that is not hurt is followed by the next one of it  *)
(* until there is no more; the first that is heard of it is its first.     *)
Follows(s, i) ==
  IF i < Len(wire[s]) /\ FrameAt(s, i + 1) = FrameAt(s, i)
  THEN ToAt(s, i) + 1 = FromAt(s, i + 1)
  ELSE ToAt(s, i) = SentUpTo(s, FrameAt(s, i))
Following(s) == \A i \in 1..Len(wire[s]) : Sound(s, i) => Follows(s, i)
Opens(s, i) ==
  IF i = 1 THEN FrameAt(s, i) \notin rx[s].heard ELSE FrameAt(s, i - 1) # FrameAt(s, i)
Opening(s) == \A i \in 1..Len(wire[s]) :
  Sound(s, i) /\ Opens(s, i) => FromAt(s, i) = First(SizeAt(s, i))

(* Of a frame that is being sent and not hurt, the packet before is the    *)
(* last on the way or has been heard.                                      *)
Halfway(s) ==
  /\ rx[s].running /\ Frame(s) > 0 /\ Frame(s) \notin hurt[s]
  /\ First(SizeOf(s, Frame(s))) <= sender[s].at /\ sender[s].at < SizeOf(s, Frame(s))
  => IF wire[s] # <<>> THEN FrameAt(s, Len(wire[s])) = Frame(s) ELSE Frame(s) \in rx[s].heard

(* What the receiver has joined when nothing since the last marker is hurt *)
(* or too long: nothing, or the beginning of a frame, and byte n is next.  *)
Expects(s, f, n) ==
  IF wire[s] # <<>> THEN FrameAt(s, 1) = f /\ FromAt(s, 1) = n
                    ELSE f = Frame(s) /\ sender[s].at = n - 1
Nothing(s) == rx[s].heard = {} /\ rx[s].data = <<>> /\ ~rx[s].first
Collects(s, f) ==
  LET n == SizeOf(s, f)
      k == Len(rx[s].data) IN
  /\ rx[s].heard = {f} /\ rx[s].first /\ rx[s].offset = 2 /\ ~Single(n)
  /\ \A i \in 1..k : rx[s].data[i] = ByteOf(s, f, First(n) + i - 1)
  /\ 0 < k /\ First(n) + k <= n /\ Expects(s, f, First(n) + k)
Spotless(s) == \A f \in rx[s].heard : f \notin hurt[s] /\ Fits(s, f)
Collected(s) ==
  rx[s].running /\ Spotless(s) => Nothing(s) \/ \E f \in rx[s].heard : Collects(s, f)

Journey(s) ==
  Placed(s) /\ Carried(s) /\ Sorted(s) /\ Following(s) /\ Opening(s) /\ Halfway(s) /\ Collected(s)

(* The ranges of what it speaks of.                                        *)
LEMMA Ranges ==
  ASSUME StreamTypeOK, NEW s \in Senders, Placed(s)
  PROVE  /\ Frame(s) \in Nat /\ sender[s].at \in Nat /\ sizes[s] \in Seq(Nat)
         /\ \A f \in 1..Frame(s) : SizeOf(s, f) \in Nat /\ SizeOf(s, f) > 1
         /\ wire[s] \in Seq(Packet) /\ Len(wire[s]) \in Nat /\ (wire[s] = <<>> <=> Len(wire[s]) <= 0)
         /\ \A i \in 1..Len(wire[s]) :
              /\ wire[s][i] \in Packet /\ FrameAt(s, i) \in 1..Frame(s)
              /\ SizeAt(s, i) \in Nat /\ SizeAt(s, i) > 1
         /\ rx[s] \in Receiver /\ hurt[s] \subseteq 1..Frame(s) /\ rx[s].heard \subseteq 1..Frame(s)
<1>1. /\ sizes[s] \in Seq(Nat) /\ sender[s].at \in Nat /\ wire[s] \in Seq(Packet) /\ rx[s] \in Receiver
  BY DEF StreamTypeOK
<1>2. /\ Frame(s) \in Nat /\ Len(wire[s]) \in Nat /\ (wire[s] = <<>> <=> Len(wire[s]) <= 0)
      /\ \A i \in 1..Len(wire[s]) : wire[s][i] \in Packet
  BY <1>1 DEF Frame
<1>3. \A f \in 1..Frame(s) : SizeOf(s, f) \in Nat
  BY <1>1 DEF Frame, SizeOf
<1>4. \A i \in 1..Len(wire[s]) : FrameAt(s, i) \in 1..Frame(s)
  BY <1>1 DEF Placed, FrameAt
<1> QED
  BY <1>1, <1>2, <1>3, <1>4 DEF Placed, SizeAt

(* Where an honest packet begins and ends.                                 *)
LEMMA Ends ==
  ASSUME StreamTypeOK, NEW s \in Senders, Placed(s), Carried(s), NEW i \in 1..Len(wire[s]), Sound(s, i)
  PROVE  /\ FromAt(s, i) \in Nat /\ ToAt(s, i) \in Nat /\ SizeAt(s, i) \in Nat
         /\ First(SizeAt(s, i)) <= FromAt(s, i) /\ FromAt(s, i) <= ToAt(s, i)
         /\ ToAt(s, i) <= SizeAt(s, i)
         /\ Len(wire[s][i].data) \in Nat
         /\ Len(wire[s][i].data) = ToAt(s, i) + 1 - FromAt(s, i) + Skip(SizeAt(s, i))
<1> DEFINE n == SizeAt(s, i)
           p == wire[s][i]
<1>1. Carries(s, n, p) /\ n \in Nat /\ n > 1 /\ p \in Packet
  BY Ranges DEF Carried, CarriesAt
<1>2. FromAt(s, i) = From(n, p) /\ ToAt(s, i) = To(n, p)
  BY DEF FromAt, ToAt
<1> HIDE DEF n, p
<1>3. p.data \in Seq(Byte) /\ Len(p.data) \in Nat /\ Skip(n) \in {0, 2} /\ First(n) \in {1, 2}
  BY <1>1 DEF Packet, Skip, First
<1>4. Skip(n) + 1 \in 1..Len(p.data)
  BY <1>1, <1>3 DEF Carries
<1>5. From(n, p) \in Nat
  <2>1. p.data[Skip(n) + 1] \in Byte
    BY <1>3, <1>4
  <2> QED
    BY <2>1 DEF From, Byte
<1>6. To(n, p) = From(n, p) + Len(p.data) - Skip(n) - 1
  BY DEF To
<1>7. First(n) <= From(n, p) /\ To(n, p) <= n /\ Skip(n) < Len(p.data)
  BY <1>1 DEF Carries
<1>8. To(n, p) \in Nat /\ From(n, p) <= To(n, p)
      /\ Len(p.data) = To(n, p) + 1 - From(n, p) + Skip(n)
  <2>1. PICK to, from, l, k : to = To(n, p) /\ from = From(n, p) /\ l = Len(p.data) /\ k = Skip(n)
    OBVIOUS
  <2>2. from \in Nat /\ l \in Nat /\ k \in Nat /\ k < l /\ to = from + l - k - 1
    BY <1>3, <1>5, <1>6, <1>7, <2>1
  <2>3. to \in Nat /\ from <= to /\ l = to + 1 - from + k
    BY <2>2
  <2> QED
    BY <2>1, <2>3
<1> QED
  BY <1>1, <1>2, <1>3, <1>5, <1>7, <1>8 DEF n, p

(* What is sent of a frame.                                                *)
LEMMA SentIs ==
  ASSUME NEW s \in Senders, NEW f \in Nat, SizeOf(s, f) \in Nat, SizeOf(s, f) > 1
  PROVE  LET n == SizeOf(s, f) IN
         /\ Sent(s, f) \in Seq(Byte) /\ Len(Sent(s, f)) = n + 1 - First(n)
         /\ \A i \in 1..(n + 1 - First(n)) : Sent(s, f)[i] = ByteOf(s, f, First(n) + i - 1)
<1> DEFINE n == SizeOf(s, f)
           first == First(n)
           m == n + 1 - first
<1>1. n \in Nat /\ first \in {1, 2} /\ m \in Nat
  BY DEF First
<1>2. Sent(s, f) = [i \in 1..m |-> ByteOf(s, f, first + i - 1)]
  BY DEF Sent, ByteOf, First, SizeOf
<1> HIDE DEF n, first, m
<1>3. \A i \in 1..m : ByteOf(s, f, first + i - 1) \in Byte
  BY <1>1 DEF ByteOf, Byte
<1>4. Sent(s, f) \in Seq(Byte)
  BY <1>1, <1>2, <1>3, IsASeq
<1>5. Len(Sent(s, f)) = m /\ \A i \in 1..m : Sent(s, f)[i] = ByteOf(s, f, first + i - 1)
  BY <1>1, <1>2, <1>4, LenProperties
<1> QED
  BY <1>4, <1>5 DEF n, first, m

(* When nothing that was heard since the last marker is hurt, the head of  *)
(* the packets continues what has been joined of its own frame.            *)
LEMMA JoinedSoFar ==
  ASSUME StreamTypeOK, NEW s \in Senders, Journey(s), wire[s] # <<>>, Spotless(s), Sound(s, 1)
  PROVE  LET f == FrameAt(s, 1)
             n == SizeAt(s, 1)
             q == Joined(rx[s], wire[s][1]) IN
         /\ q \in Seq(Byte) /\ Len(q) = ToAt(s, 1) + 1 - First(n)
         /\ \A i \in 1..Len(q) : q[i] = ByteOf(s, f, First(n) + i - 1)
         /\ rx[s].heard \subseteq {f}
<1> DEFINE f == FrameAt(s, 1)
           n == SizeAt(s, 1)
           p == wire[s][1]
           r == rx[s]
           q == Joined(r, p)
           from == FromAt(s, 1)
           to == ToAt(s, 1)
           d == Len(r.data)
<1>1. /\ 1 \in 1..Len(wire[s]) /\ p \in Packet /\ f \in Nat /\ n \in Nat /\ r \in Receiver /\ r.running
  BY Ranges DEF Journey, Placed
<1>2. /\ from \in Nat /\ to \in Nat /\ First(n) <= from /\ from <= to /\ to <= n
      /\ Len(p.data) \in Nat /\ Len(p.data) = to + 1 - from + Skip(n)
  BY <1>1, Ends DEF Journey
<1>3. Carries(s, n, p) /\ p.frame = f /\ from = From(n, p) /\ to = To(n, p)
  BY <1>1 DEF Journey, Carried, CarriesAt, FrameAt, FromAt, ToAt
<1>4. /\ Skip(n) = IF n <= MaxPayload THEN 0 ELSE 2
      /\ First(n) = IF n <= MaxPayload THEN 1 ELSE 2
      /\ n <= MaxPayload => from = 1 /\ to = n
      /\ p.marker <=> to = n
      /\ Len(p.data) <= MaxPayload /\ MaxPayload \in Nat
  BY <1>3, StreamAssumption DEF Skip, First, Single, Carries
<1>5. \A i \in (Skip(n) + 1)..Len(p.data) : p.data[i] = ByteOf(s, f, from + i - Skip(n) - 1)
  BY <1>3 DEF Carries
<1>6. Nothing(s) \/ \E g \in rx[s].heard : Collects(s, g)
  BY <1>1 DEF Journey, Collected
<1>7. d \in Nat /\ r.data \in Seq(Byte) /\ First(n) \in Nat /\ Skip(n) \in Nat
  BY <1>1 DEF Receiver, First, Skip
(* The bytes are counted from the frame's first one.                       *)
<1>8. /\ r.heard \subseteq {f} /\ from = First(n) + d /\ Offset(r, p) = Skip(n)
      /\ \A i \in 1..d : r.data[i] = ByteOf(s, f, First(n) + i - 1)
  <2>1. CASE Nothing(s)
    <3>1. r.heard = {} /\ r.data = <<>> /\ ~r.first
      BY <2>1 DEF Nothing
    <3>2. d <= 0 /\ d = 0
      BY <3>1, <1>7
    <3>3. Opens(s, 1)
      BY <3>1 DEF Opens
    <3>4. from = First(n)
      BY <1>1, <3>3 DEF Journey, Opening
    <3> HIDE DEF n, r, p, from, to, d
    <3>5. CASE n <= MaxPayload
      <4>1. p.marker
        BY <1>4, <3>5
      <4> QED
        BY <1>4, <3>1, <3>2, <3>4, <3>5, <4>1 DEF Offset
    <3>6. CASE ~(n <= MaxPayload)
      <4>1. to # n
        BY <1>1, <1>2, <1>4, <3>4, <3>6
      <4>2. ~p.marker
        BY <1>4, <4>1
      <4> QED
        BY <1>4, <3>1, <3>2, <3>4, <3>6, <4>2 DEF Offset
    <3> QED
      BY <3>5, <3>6
  <2>2. ASSUME NEW g \in rx[s].heard, Collects(s, g)
        PROVE  /\ r.heard \subseteq {f} /\ from = First(n) + d /\ Offset(r, p) = Skip(n)
               /\ \A i \in 1..d : r.data[i] = ByteOf(s, f, First(n) + i - 1)
    <3>1. FrameAt(s, 1) = g /\ FromAt(s, 1) = First(SizeOf(s, g)) + d
      BY <2>2 DEF Collects, Expects
    <3>2. g = f /\ n = SizeOf(s, g)
      BY <3>1 DEF SizeAt
    <3>3. /\ r.heard = {f} /\ r.first /\ r.offset = 2 /\ ~Single(n)
          /\ \A i \in 1..d : r.data[i] = ByteOf(s, f, First(n) + i - 1)
      BY <2>2, <3>2 DEF Collects
    <3>4. Skip(n) = 2
      BY <3>3 DEF Skip
    <3>5. Offset(r, p) = 2
      BY <3>3 DEF Offset
    <3> QED
      BY <3>1, <3>2, <3>3, <3>4, <3>5
  <2> QED
    BY <1>6, <2>1, <2>2
<1>9. /\ q \in Seq(Byte) /\ Len(q) = d + (to + 1 - from)
      /\ \A i \in 1..(d + (to + 1 - from)) :
           q[i] = IF i <= d THEN r.data[i] ELSE p.data[i - d + Skip(n)]
  <2> DEFINE k == Offset(r, p)
             more == IF k < Len(p.data) THEN Len(p.data) - k ELSE 0
  <2>1. /\ q \in Seq(Byte) /\ Len(q) = d + more
        /\ \A i \in 1..(d + more) : q[i] = IF i <= d THEN r.data[i] ELSE p.data[i - d + k]
    BY <1>1, JoinedIs
  <2>2. k = Skip(n)
    BY <1>8
  <2>3. more = to + 1 - from
    <3> HIDE DEF n, p, from, to, k
    <3> QED
      BY <1>2, <1>4, <2>2
  <2> HIDE DEF f, n, p, r, q, from, to, d, k, more
  <2> QED
    BY <2>1, <2>2, <2>3
<1> HIDE DEF f, n, p, r, q, from, to, d
<1>10. Len(q) = to + 1 - First(n)
  BY <1>2, <1>7, <1>8, <1>9
<1>11. ASSUME NEW i \in 1..Len(q)
       PROVE  q[i] = ByteOf(s, f, First(n) + i - 1)
  <2>1. i \in Nat /\ 1 <= i /\ i <= d + (to + 1 - from) /\ i \in 1..(d + (to + 1 - from))
    BY <1>2, <1>7, <1>9
  <2>2. CASE i <= d
    <3>1. i \in 1..d /\ q[i] = r.data[i]
      BY <1>7, <1>9, <2>1, <2>2
    <3> QED
      BY <1>8, <3>1
  <2>3. CASE ~(i <= d)
    <3>1. q[i] = p.data[i - d + Skip(n)]
      BY <1>9, <2>1, <2>3
    <3>2. i - d + Skip(n) \in (Skip(n) + 1)..Len(p.data)
      BY <1>2, <1>7, <2>1, <2>3
    <3>3. from + (i - d + Skip(n)) - Skip(n) - 1 = First(n) + i - 1
      <4>1. from = First(n) + d
        BY <1>8
      <4> QED
        BY <1>7, <2>1, <4>1
    <3> QED
      BY <1>5, <3>1, <3>2, <3>3
  <2> QED
    BY <2>2, <2>3
<1> QED
  BY <1>8, <1>9, <1>10, <1>11 DEF f, n, p, r, q, to

(* What the invariant says of decoding.                                    *)
LEMMA JourneySpoils ==
  ASSUME StreamTypeOK, \A s \in Senders : Journey(s)
  PROVE  SpoiledUpToMarker
<1> SUFFICES ASSUME NEW s \in Senders, wire[s] # <<>>, Completes(rx[s], Head(wire[s])),
                    \A f \in Since(rx[s], Head(wire[s])) : f \notin hurt[s] /\ Fits(s, f)
             PROVE  Joined(rx[s], Head(wire[s])) = Sent(s, Head(wire[s]).frame)
  BY DEF SpoiledUpToMarker
<1> DEFINE f == FrameAt(s, 1)
           n == SizeAt(s, 1)
           q == Joined(rx[s], wire[s][1])
<1>1. Journey(s) /\ Placed(s) /\ Carried(s)
  BY DEF Journey
<1>2. /\ 1 \in 1..Len(wire[s]) /\ Head(wire[s]) = wire[s][1] /\ f \in Nat
      /\ n \in Nat /\ n > 1
  <2>1. wire[s] \in Seq(Packet) /\ Len(wire[s]) > 0 /\ Len(wire[s]) \in Nat
    BY <1>1, Ranges
  <2> QED
    BY <1>1, <2>1, Ranges
<1>3. Spotless(s) /\ Sound(s, 1)
  BY <1>2 DEF Spotless, Sound, FrameAt, Since
<1>4. /\ q \in Seq(Byte) /\ Len(q) = ToAt(s, 1) + 1 - First(n)
      /\ \A i \in 1..Len(q) : q[i] = ByteOf(s, f, First(n) + i - 1)
  BY <1>1, <1>3, JoinedSoFar
<1>5. ToAt(s, 1) = n
  BY <1>1, <1>2, <1>3 DEF Completes, Carried, CarriesAt, Carries, ToAt
<1>6. n = SizeOf(s, f)
  BY DEF SizeAt
<1>7. /\ Sent(s, f) \in Seq(Byte) /\ Len(Sent(s, f)) = n + 1 - First(n)
      /\ \A i \in 1..(n + 1 - First(n)) : Sent(s, f)[i] = ByteOf(s, f, First(n) + i - 1)
  BY <1>2, <1>6, SentIs
<1> HIDE DEF n, f, q
<1>8. q = Sent(s, f)
  BY <1>4, <1>5, <1>7, SeqEqual
<1> QED
  BY <1>2, <1>8 DEF q, f, FrameAt

-----------------------------------------------------------------------------
(* Steps.                                                                  *)

(* A packet that is where another was is what that was.                    *)
LEMMA SamePacket ==
  ASSUME NEW s \in Senders, NEW i, NEW j, wire'[s][i] = wire[s][j],
         sizes'[s][FrameAt(s, j)] = sizes[s][FrameAt(s, j)]
  PROVE  /\ FrameAt(s, i)' = FrameAt(s, j) /\ SizeAt(s, i)' = SizeAt(s, j)
         /\ FromAt(s, i)' = FromAt(s, j) /\ ToAt(s, i)' = ToAt(s, j)
         /\ CarriesAt(s, i)' <=> CarriesAt(s, j)
<1>1. FrameAt(s, i)' = FrameAt(s, j)
  BY DEF FrameAt
<1>2. SizeAt(s, i)' = SizeAt(s, j)
  BY <1>1 DEF SizeAt, SizeOf
<1> QED
  BY <1>1, <1>2 DEF FromAt, ToAt, CarriesAt

(* A step that neither sends nor receives.                                 *)
LEMMA QuietStep ==
  ASSUME NEW s \in Senders, Journey(s),
         sender'[s].at = sender[s].at, sender'[s].pc = "read" => sender[s].pc = "read",
         Building(s)' => Building(s), sizes'[s] = sizes[s], wire'[s] = wire[s],
         rx'[s] = rx[s], hurt'[s] = hurt[s]
  PROVE  Journey(s)'
<1>1. Frame(s)' = Frame(s) /\ \A f : SizeOf(s, f)' = SizeOf(s, f)
  BY DEF Frame, SizeOf
<1>2. \A i : FrameAt(s, i)' = FrameAt(s, i) /\ SizeAt(s, i)' = SizeAt(s, i)
             /\ FromAt(s, i)' = FromAt(s, i) /\ ToAt(s, i)' = ToAt(s, i)
             /\ (CarriesAt(s, i)' <=> CarriesAt(s, i))
  BY SamePacket
<1>3. \A i : Sound(s, i)' <=> Sound(s, i)
  BY <1>2 DEF Sound
<1>4. \A f : Fits(s, f)' <=> Fits(s, f)
  BY DEF Fits, Sent
<1>5. Placed(s)'
  BY <1>1 DEF Journey, Placed
<1>6. Carried(s)' /\ Sorted(s)'
  BY <1>2, <1>3 DEF Journey, Carried, Sorted
<1>7. Following(s)' /\ Opening(s)'
  <2>1. \A f : SentUpTo(s, f)' = SentUpTo(s, f)
    BY <1>1 DEF SentUpTo
  <2> QED
    BY <1>2, <1>3, <2>1 DEF Journey, Following, Follows, Opening, Opens
<1>8. Halfway(s)'
  BY <1>1, <1>2 DEF Journey, Halfway
<1>9. Collected(s)'
  <2>1. (Spotless(s)' <=> Spotless(s)) /\ (Nothing(s)' <=> Nothing(s))
    BY <1>4 DEF Spotless, Nothing
  <2>2. \A f, n : Expects(s, f, n)' <=> Expects(s, f, n)
    BY <1>1, <1>2 DEF Expects
  <2>3. \A f : Collects(s, f)' <=> Collects(s, f)
    BY <1>1, <2>2 DEF Collects
  <2> QED
    BY <2>1, <2>3 DEF Journey, Collected
<1> QED
  BY <1>5, <1>6, <1>7, <1>8, <1>9 DEF Journey

(* The next frame starts: all of the one before has been sent.             *)
LEMMA FrameStep ==
  ASSUME StreamTypeOK, NEW s \in Senders, Journey(s), HandleFrame(s)
  PROVE  Journey(s)'
<1>1. PICK n \in SizesOf[s][Frame(s) + 1] :
        /\ sizes' = [sizes EXCEPT ![s] = Append(@, n)]
        /\ sender' = [sender EXCEPT ![s] = [pc |-> "size", at |-> IF Single(n) THEN 0 ELSE 1]]
  BY DEF HandleFrame
<1>2. /\ sender[s].pc = "read" /\ Frame(s) < Len(SizesOf[s])
      /\ wire'[s] = wire[s] /\ rx'[s] = rx[s] /\ hurt'[s] = hurt[s]
  BY DEF HandleFrame
<1>3. /\ Frame(s) \in Nat /\ sender[s].at \in Nat /\ sizes[s] \in Seq(Nat)
      /\ \A f \in 1..Frame(s) : SizeOf(s, f) \in Nat /\ SizeOf(s, f) > 1
      /\ wire[s] \in Seq(Packet) /\ Len(wire[s]) \in Nat /\ (wire[s] = <<>> <=> Len(wire[s]) <= 0)
      /\ \A i \in 1..Len(wire[s]) : FrameAt(s, i) \in 1..Frame(s)
      /\ rx[s] \in Receiver /\ hurt[s] \subseteq 1..Frame(s) /\ rx[s].heard \subseteq 1..Frame(s)
  BY Ranges DEF Journey
<1>4. n \in Nat /\ n > 1
  <2>1. SizesOf[s] \in Seq(SUBSET (Nat \ {0, 1}))
    BY StreamAssumption
  <2>2. SizesOf[s][Frame(s) + 1] \in SUBSET (Nat \ {0, 1})
    BY <1>2, <1>3, <2>1
  <2> QED
    BY <2>2
<1>5. /\ Frame(s)' = Frame(s) + 1 /\ sizes'[s][Frame(s) + 1] = n /\ SizeOf(s, Frame(s))' = n
      /\ \A f \in 1..Frame(s) : SizeOf(s, f)' = SizeOf(s, f)
  <2>1. sizes'[s] = Append(sizes[s], n)
    BY <1>1 DEF StreamTypeOK
  <2> QED
    BY <1>3, <1>4, <2>1 DEF Frame, SizeOf
<1>6. sender'[s].pc = "size" /\ sender'[s].at = First(n) - 1
  BY <1>1 DEF StreamTypeOK, First
<1>7. \A i \in 1..Len(wire[s]) :
        /\ FrameAt(s, i)' = FrameAt(s, i) /\ SizeAt(s, i)' = SizeAt(s, i)
        /\ FromAt(s, i)' = FromAt(s, i) /\ ToAt(s, i)' = ToAt(s, i)
        /\ CarriesAt(s, i)' <=> CarriesAt(s, i)
        /\ Sound(s, i)' <=> Sound(s, i)
  <2> SUFFICES ASSUME NEW i \in 1..Len(wire[s])
               PROVE  /\ FrameAt(s, i)' = FrameAt(s, i) /\ SizeAt(s, i)' = SizeAt(s, i)
                      /\ FromAt(s, i)' = FromAt(s, i) /\ ToAt(s, i)' = ToAt(s, i)
                      /\ CarriesAt(s, i)' <=> CarriesAt(s, i)
                      /\ Sound(s, i)' <=> Sound(s, i)
    OBVIOUS
  <2>1. sizes'[s][FrameAt(s, i)] = sizes[s][FrameAt(s, i)]
    BY <1>3, <1>5 DEF SizeOf
  <2>2. /\ FrameAt(s, i)' = FrameAt(s, i) /\ SizeAt(s, i)' = SizeAt(s, i)
        /\ FromAt(s, i)' = FromAt(s, i) /\ ToAt(s, i)' = ToAt(s, i)
        /\ CarriesAt(s, i)' <=> CarriesAt(s, i)
    BY <1>2, <2>1, SamePacket
  <2> QED
    BY <1>2, <2>2 DEF Sound
<1>8. Placed(s)'
  <2>1. First(n) \in Nat /\ 0 <= First(n) - 1 /\ First(n) - 1 < n /\ (Single(n) => First(n) - 1 = 0)
    BY <1>4 DEF First
  <2>2. \A f \in 1..(Frame(s) + 1) : SizeOf(s, f)' > 1
    <3>1. \A f \in 1..(Frame(s) + 1) : f \in 1..Frame(s) \/ f = Frame(s) + 1
      BY <1>3
    <3> QED
      BY <1>3, <1>4, <1>5, <3>1 DEF SizeOf
  <2>3. \A i \in DOMAIN wire[s] : wire[s][i].frame \in 1..(Frame(s) + 1)
    BY <1>3 DEF FrameAt
  <2>4. /\ rx'[s].heard \subseteq 1..(Frame(s) + 1) /\ hurt'[s] \subseteq 1..(Frame(s) + 1)
        /\ wire'[s] # <<>> => rx'[s].running
    BY <1>2, <1>3 DEF Placed, Journey
  <2>5. Building(s)' => /\ Frame(s)' > 0 /\ First(SizeOf(s, Frame(s))') - 1 <= sender'[s].at
                        /\ sender'[s].at < SizeOf(s, Frame(s))'
                        /\ (Single(SizeOf(s, Frame(s))') => sender'[s].at = 0)
    <3>1. Frame(s)' > 0 /\ SizeOf(s, Frame(s))' = n /\ sender'[s].at = First(n) - 1
      BY <1>3, <1>5, <1>6
    <3> QED
      BY <2>1, <3>1
  <2>6. sender'[s].pc # "read"
    BY <1>6
  <2> QED
    BY <1>2, <1>5, <2>2, <2>3, <2>4, <2>5, <2>6 DEF Placed
<1>9. Carried(s)' /\ Sorted(s)'
  BY <1>2, <1>7 DEF Journey, Carried, Sorted
<1>10. Following(s)'
  <2>1. \A f \in 1..Frame(s) : SentUpTo(s, f)' = SentUpTo(s, f)
    <3>1. Frame(s) > 0 => sender[s].at = SizeOf(s, Frame(s))
      BY <1>2 DEF Journey, Placed
    <3> QED
      BY <1>3, <1>5, <3>1 DEF SentUpTo
  <2>2. \A i \in 1..Len(wire[s]) : Follows(s, i)' <=> Follows(s, i)
    <3> SUFFICES ASSUME NEW i \in 1..Len(wire[s])
                 PROVE  Follows(s, i)' <=> Follows(s, i)
      OBVIOUS
    <3>1. i < Len(wire[s]) => i + 1 \in 1..Len(wire[s])
      BY <1>3
    <3>2. i < Len(wire[s]) => FrameAt(s, i + 1)' = FrameAt(s, i + 1) /\ FromAt(s, i + 1)' = FromAt(s, i + 1)
      BY <1>7, <3>1
    <3>3. FrameAt(s, i)' = FrameAt(s, i) /\ ToAt(s, i)' = ToAt(s, i)
          /\ SentUpTo(s, FrameAt(s, i))' = SentUpTo(s, FrameAt(s, i))
      BY <1>3, <1>7, <2>1
    <3> QED
      BY <1>2, <3>2, <3>3 DEF Follows
  <2> QED
    BY <1>2, <1>7, <2>2 DEF Journey, Following
<1>11. Opening(s)'
  <2>1. \A i \in 1..Len(wire[s]) : Opens(s, i)' <=> Opens(s, i)
    <3> SUFFICES ASSUME NEW i \in 1..Len(wire[s])
                 PROVE  Opens(s, i)' <=> Opens(s, i)
      OBVIOUS
    <3>1. i # 1 => i - 1 \in 1..Len(wire[s])
      BY <1>3
    <3> QED
      BY <1>2, <1>7, <3>1 DEF Opens
  <2> QED
    BY <1>2, <1>7, <2>1 DEF Journey, Opening
<1>12. Halfway(s)'
  <2>1. ~(First(n) <= First(n) - 1)
    BY DEF First
  <2> QED
    BY <1>5, <1>6, <2>1 DEF Halfway
<1>13. Collected(s)'
  <2>1. Spotless(s)' => Spotless(s)
    <3>1. \A f \in 1..Frame(s) : Fits(s, f)' <=> Fits(s, f)
      BY <1>5 DEF Fits, Sent, SizeOf
    <3> QED
      BY <1>2, <1>3, <3>1 DEF Spotless
  <2>2. ASSUME NEW f \in rx[s].heard, Collects(s, f) PROVE Collects(s, f)'
    <3>1. f \in 1..Frame(s) /\ SizeOf(s, f)' = SizeOf(s, f) /\ SizeOf(s, f) \in Nat
      BY <1>3, <1>5
    <3> DEFINE k == Len(rx[s].data)
               m == First(SizeOf(s, f)) + k
    <3>2. k \in Nat /\ 0 < k /\ m <= SizeOf(s, f) /\ Expects(s, f, m) /\ m \in Nat
      BY <1>3, <2>2 DEF Collects, Receiver, First
    <3>3. wire[s] # <<>>
      <4> SUFFICES ASSUME wire[s] = <<>> PROVE FALSE
        OBVIOUS
      <4>1. f = Frame(s) /\ sender[s].at = m - 1
        BY <3>2 DEF Expects
      <4>2. sender[s].at = SizeOf(s, f)
        BY <1>2, <3>1, <4>1 DEF Journey, Placed
      <4> HIDE DEF m
      <4> QED
        BY <3>1, <3>2, <4>1, <4>2
    <3>4. FrameAt(s, 1)' = FrameAt(s, 1) /\ FromAt(s, 1)' = FromAt(s, 1)
      <4>1. 1 \in 1..Len(wire[s])
        BY <1>3, <3>3
      <4> QED
        BY <1>7, <4>1
    <3>5. Expects(s, f, m)'
      BY <1>2, <3>1, <3>2, <3>3, <3>4 DEF Expects
    <3> QED
      BY <1>2, <2>2, <3>1, <3>5 DEF Collects
  <2>3. Nothing(s) => Nothing(s)'
    BY <1>2 DEF Nothing
  <2> QED
    BY <1>2, <2>1, <2>2, <2>3 DEF Journey, Collected
<1> QED
  BY <1>8, <1>9, <1>10, <1>11, <1>12, <1>13 DEF Journey

(* A packet that goes out as it was cut carries the bytes that are next.   *)
LEMMA OwnIs ==
  ASSUME StreamTypeOK, NEW s \in Senders, Placed(s), Building(s)
  PROVE  LET n == SizeOf(s, Frame(s)) IN
         /\ Carries(s, n, Own(s)) /\ Own(s).frame = Frame(s)
         /\ From(n, Own(s)) = sender[s].at + 1 /\ To(n, Own(s)) = sender[s].at + Advance(s)
<1> DEFINE n == SizeOf(s, Frame(s))
           p == Own(s)
           at == sender[s].at
           k == Advance(s)
<1>1. /\ Frame(s) \in Nat /\ n \in Nat /\ at \in Nat /\ k \in Nat /\ 0 < k /\ at + k <= n
      /\ Skip(n) + k <= MaxPayload
      /\ IsLast(s) <=> at + k = n
      /\ Single(n) => k = n
  BY Cut
<1>2. /\ Len(Piece(s)) = Skip(n) + k /\ Piece(s) \in Seq(Byte)
      /\ \A i \in (Skip(n) + 1)..(Skip(n) + k) : Piece(s)[i] = ByteOf(s, Frame(s), at + i - Skip(n))
  BY PieceIs
<1>3. p.data = Piece(s) /\ (p.marker <=> IsLast(s)) /\ p.frame = Frame(s)
  BY DEF Own
<1>4. Skip(n) \in {0, 2} /\ First(n) \in {1, 2} /\ First(n) - 1 <= at /\ (Single(n) => at = 0)
  BY DEF Skip, First, Placed
<1> HIDE DEF n, p, at, k
<1>5. From(n, p) = at + 1
  <2>1. Skip(n) + 1 \in (Skip(n) + 1)..(Skip(n) + k) /\ at + (Skip(n) + 1) - Skip(n) = at + 1
    BY <1>1, <1>4
  <2>2. p.data[Skip(n) + 1] = ByteOf(s, Frame(s), at + 1)
    BY <1>2, <1>3, <2>1
  <2> QED
    BY <2>2 DEF From, ByteOf
<1>6. To(n, p) = at + k
  BY <1>1, <1>2, <1>3, <1>4, <1>5 DEF To
<1>7. \A i \in (Skip(n) + 1)..Len(p.data) : p.data[i] = ByteOf(s, p.frame, From(n, p) + i - Skip(n) - 1)
  <2> SUFFICES ASSUME NEW i \in (Skip(n) + 1)..Len(p.data)
               PROVE  p.data[i] = ByteOf(s, p.frame, From(n, p) + i - Skip(n) - 1)
    OBVIOUS
  <2>1. p.data[i] = ByteOf(s, Frame(s), at + i - Skip(n))
    BY <1>2, <1>3
  <2>2. at + i - Skip(n) = From(n, p) + i - Skip(n) - 1
    <3>1. i \in Int /\ Skip(n) \in Int /\ at \in Int
      BY <1>1, <1>2, <1>3, <1>4
    <3> QED
      BY <1>5, <3>1
  <2> QED
    BY <1>3, <2>1, <2>2
<1>8. /\ Skip(n) < Len(p.data) /\ Len(p.data) <= MaxPayload
      /\ First(n) <= From(n, p) /\ To(n, p) <= n
      /\ Single(n) => From(n, p) = 1 /\ To(n, p) = n
  BY <1>1, <1>2, <1>3, <1>4, <1>5, <1>6
<1>9. p.marker <=> To(n, p) = n
  BY <1>1, <1>3, <1>6
<1> QED
  BY <1>3, <1>5, <1>6, <1>7, <1>8, <1>9 DEF Carries, n, p, at, k

(* What SendRtpPacket does: the packet is put behind the others, or lost.  *)
LEMMA SendMoves ==
  ASSUME StreamTypeOK, NEW s \in Senders, Journey(s), SendRtpPacket(s)
  PROVE  /\ Building(s) /\ Frame(s)' = Frame(s) /\ sizes'[s] = sizes[s] /\ rx'[s] = rx[s]
         /\ sender'[s].at = sender[s].at + Advance(s)
         /\ \/ wire'[s] = wire[s] /\ hurt'[s] = hurt[s] \cup {Frame(s)}
            \/ wire'[s] = Append(wire[s], Built(s)) /\ hurt'[s] = hurt[s] \cup {Frame(s)}
            \/ wire'[s] = Append(wire[s], Own(s)) /\ hurt'[s] = hurt[s]
         /\ \A i \in 1..Len(wire[s]) :
              /\ FrameAt(s, i)' = FrameAt(s, i) /\ SizeAt(s, i)' = SizeAt(s, i)
              /\ FromAt(s, i)' = FromAt(s, i) /\ ToAt(s, i)' = ToAt(s, i)
              /\ CarriesAt(s, i)' <=> CarriesAt(s, i)
         /\ Len(wire'[s]) \in {Len(wire[s]), Len(wire[s]) + 1} /\ wire'[s] \in Seq(Packet)
         /\ Len(wire'[s]) = Len(wire[s]) + 1 => wire'[s][Len(wire[s]) + 1].frame = Frame(s)
         /\ Placed(s)'
<1>1. /\ Building(s) /\ Placed(s)
      /\ sizes'[s] = sizes[s] /\ rx'[s] = rx[s] /\ Frame(s)' = Frame(s)
      /\ \A f : SizeOf(s, f)' = SizeOf(s, f)
  BY DEF SendRtpPacket, Building, Frame, SizeOf, Journey
<1>2. sender'[s].pc = (IF IsLast(s) THEN "read" ELSE "size") /\ sender'[s].at = sender[s].at + Advance(s)
  BY DEF SendRtpPacket, StreamTypeOK
<1>3. \/ wire'[s] = wire[s] /\ hurt'[s] = hurt[s] \cup {Frame(s)}
      \/ wire'[s] = Append(wire[s], Built(s)) /\ hurt'[s] = hurt[s] \cup {Frame(s)} /\ rx[s].running
      \/ wire'[s] = Append(wire[s], Own(s)) /\ hurt'[s] = hurt[s] /\ Built(s) = Own(s) /\ rx[s].running
  <2>1. wire'[s] = IF HasRoom(s) THEN Append(wire[s], Built(s)) ELSE wire[s]
    BY DEF SendRtpPacket, StreamTypeOK
  <2>2. hurt'[s] = IF HasRoom(s) /\ Built(s) = Own(s) THEN hurt[s] ELSE hurt[s] \cup {Frame(s)}
    BY DEF SendRtpPacket, StreamTypeOK
  <2>3. HasRoom(s) => rx[s].running
    BY DEF HasRoom
  <2> QED
    BY <2>1, <2>2, <2>3
<1>4. /\ Frame(s) \in Nat /\ Frame(s) > 0 /\ SizeOf(s, Frame(s)) \in Nat /\ sender[s].at \in Nat
      /\ Advance(s) \in Nat /\ 0 < Advance(s) /\ sender[s].at + Advance(s) <= SizeOf(s, Frame(s))
      /\ IsLast(s) <=> sender[s].at + Advance(s) = SizeOf(s, Frame(s))
      /\ Single(SizeOf(s, Frame(s))) => Advance(s) = SizeOf(s, Frame(s))
  BY <1>1, Cut
<1>5. Built(s) \in Packet /\ Built(s).frame = Frame(s)
  BY BuiltIs
<1>6. /\ wire[s] \in Seq(Packet) /\ Len(wire[s]) \in Nat
      /\ \A i \in 1..Len(wire[s]) : FrameAt(s, i) \in 1..Frame(s)
      /\ hurt[s] \subseteq 1..Frame(s) /\ rx[s].heard \subseteq 1..Frame(s)
  BY <1>1, Ranges
<1>7. /\ \A i \in 1..Len(wire[s]) : wire'[s][i] = wire[s][i]
      /\ Len(wire'[s]) \in {Len(wire[s]), Len(wire[s]) + 1} /\ wire'[s] \in Seq(Packet)
      /\ Len(wire'[s]) = Len(wire[s]) + 1 => wire'[s][Len(wire[s]) + 1].frame = Frame(s)
  <2>1. CASE wire'[s] = wire[s]
    BY <1>6, <2>1
  <2>2. CASE wire'[s] = Append(wire[s], Built(s))
    <3>1. /\ Len(wire'[s]) = Len(wire[s]) + 1 /\ wire'[s] \in Seq(Packet)
          /\ \A i \in 1..Len(wire[s]) : wire'[s][i] = wire[s][i]
          /\ wire'[s][Len(wire[s]) + 1] = Built(s)
      BY <1>5, <1>6, <2>2, AppendProperties
    <3> QED
      BY <1>5, <3>1
  <2> QED
    BY <1>3, <2>1, <2>2
<1>8. \A i \in 1..Len(wire[s]) :
        /\ FrameAt(s, i)' = FrameAt(s, i) /\ SizeAt(s, i)' = SizeAt(s, i)
        /\ FromAt(s, i)' = FromAt(s, i) /\ ToAt(s, i)' = ToAt(s, i)
        /\ CarriesAt(s, i)' <=> CarriesAt(s, i)
  BY <1>1, <1>7, SamePacket
<1>9. Placed(s)'
  <2>1. \A f \in 1..Frame(s) : SizeOf(s, f)' > 1
    BY <1>1 DEF Placed
  <2>2. Building(s)' => /\ First(SizeOf(s, Frame(s))) - 1 <= sender'[s].at
                        /\ sender'[s].at < SizeOf(s, Frame(s))
                        /\ (Single(SizeOf(s, Frame(s))) => sender'[s].at = 0)
    <3> SUFFICES ASSUME Building(s)'
                 PROVE  /\ First(SizeOf(s, Frame(s))) - 1 <= sender'[s].at
                        /\ sender'[s].at < SizeOf(s, Frame(s))
                        /\ (Single(SizeOf(s, Frame(s))) => sender'[s].at = 0)
      OBVIOUS
    <3>1. ~IsLast(s)
      BY <1>2 DEF Building
    <3>2. First(SizeOf(s, Frame(s))) - 1 <= sender[s].at /\ First(SizeOf(s, Frame(s))) \in Nat
      BY <1>1 DEF Placed, First
    <3>3. ~Single(SizeOf(s, Frame(s)))
      BY <1>1, <1>4, <3>1 DEF IsLast, SizeOf
    <3> QED
      BY <1>2, <1>4, <3>1, <3>2, <3>3
  <2>3. sender'[s].pc = "read" => sender'[s].at = SizeOf(s, Frame(s))
    BY <1>2, <1>4
  <2>4. \A i \in DOMAIN wire'[s] : wire'[s][i].frame \in 1..Frame(s)
    <3>1. \A i \in 1..Len(wire'[s]) : FrameAt(s, i)' \in 1..Frame(s)
      <4> SUFFICES ASSUME NEW i \in 1..Len(wire'[s]) PROVE FrameAt(s, i)' \in 1..Frame(s)
        OBVIOUS
      <4>1. CASE i \in 1..Len(wire[s])
        BY <1>6, <1>8, <4>1
      <4>2. CASE i \notin 1..Len(wire[s])
        <5>1. i = Len(wire[s]) + 1 /\ Len(wire'[s]) = Len(wire[s]) + 1
          BY <1>6, <1>7, <4>2
        <5> QED
          BY <1>4, <1>7, <5>1 DEF FrameAt
      <4> QED
        BY <4>1, <4>2
    <3> QED
      BY <1>7, <3>1 DEF FrameAt
  <2>5. hurt'[s] \subseteq 1..Frame(s)
    BY <1>3, <1>4, <1>6
  <2>6. wire'[s] # <<>> => rx'[s].running
    BY <1>1, <1>3 DEF Placed
  <2> QED
    BY <1>1, <1>4, <1>6, <2>1, <2>2, <2>3, <2>4, <2>5, <2>6 DEF Placed
<1> QED
  BY <1>1, <1>2, <1>3, <1>7, <1>8, <1>9

(* A packet that is lost, or goes out with another's bytes, hurts its      *)
(* frame; nothing is said of it any more.                                  *)
LEMMA HurtStep ==
  ASSUME StreamTypeOK, NEW s \in Senders, Journey(s), SendRtpPacket(s),
         hurt'[s] = hurt[s] \cup {Frame(s)}
  PROVE  Journey(s)'
<1>1. /\ Frame(s)' = Frame(s) /\ sizes'[s] = sizes[s] /\ rx'[s] = rx[s] /\ Placed(s)'
      /\ \A i \in 1..Len(wire[s]) :
           /\ FrameAt(s, i)' = FrameAt(s, i) /\ SizeAt(s, i)' = SizeAt(s, i)
           /\ FromAt(s, i)' = FromAt(s, i) /\ ToAt(s, i)' = ToAt(s, i)
           /\ CarriesAt(s, i)' <=> CarriesAt(s, i)
      /\ Len(wire'[s]) \in {Len(wire[s]), Len(wire[s]) + 1} /\ wire'[s] \in Seq(Packet)
      /\ Len(wire'[s]) = Len(wire[s]) + 1 => wire'[s][Len(wire[s]) + 1].frame = Frame(s)
  BY SendMoves
<1>2. /\ Placed(s) /\ Carried(s) /\ Sorted(s) /\ Following(s) /\ Opening(s) /\ Collected(s)
      /\ wire[s] \in Seq(Packet) /\ Len(wire[s]) \in Nat /\ Frame(s) \in Nat
      /\ \A i \in 1..Len(wire[s]) : FrameAt(s, i) \in 1..Frame(s)
      /\ (wire[s] = <<>> <=> Len(wire[s]) <= 0)
  BY Ranges DEF Journey
<1>3. \A i \in 1..Len(wire'[s]) :
        /\ i \in 1..Len(wire[s]) \/ (i = Len(wire[s]) + 1 /\ FrameAt(s, i)' = Frame(s))
        /\ Sound(s, i)' => i \in 1..Len(wire[s]) /\ Sound(s, i) /\ FrameAt(s, i) # Frame(s)
  <2> SUFFICES ASSUME NEW i \in 1..Len(wire'[s])
               PROVE  /\ i \in 1..Len(wire[s]) \/ (i = Len(wire[s]) + 1 /\ FrameAt(s, i)' = Frame(s))
                      /\ Sound(s, i)' => i \in 1..Len(wire[s]) /\ Sound(s, i) /\ FrameAt(s, i) # Frame(s)
    OBVIOUS
  <2>1. CASE i \in 1..Len(wire[s])
    BY <1>1, <2>1 DEF Sound
  <2>2. CASE i \notin 1..Len(wire[s])
    <3>1. i = Len(wire[s]) + 1 /\ Len(wire'[s]) = Len(wire[s]) + 1
      BY <1>1, <1>2, <2>2
    <3>2. FrameAt(s, i)' = Frame(s)
      BY <1>1, <3>1 DEF FrameAt
    <3> QED
      BY <3>1, <3>2 DEF Sound
  <2> QED
    BY <2>1, <2>2
<1>4. Carried(s)'
  BY <1>1, <1>2, <1>3 DEF Carried
<1>5. Sorted(s)'
  <2> SUFFICES ASSUME NEW i \in 1..Len(wire'[s]), NEW j \in 1..Len(wire'[s]),
                      i < j, FrameAt(s, i)' > FrameAt(s, j)'
               PROVE  ~Sound(s, i)' /\ ~Sound(s, j)'
    BY DEF Sorted
  <2>1. i \in 1..Len(wire[s])
    BY <1>1, <1>2, <1>3
  <2>2. j \in 1..Len(wire[s])
    <3>1. FrameAt(s, i)' \in 1..Frame(s)
      BY <1>1, <1>2, <2>1
    <3>2. ~(FrameAt(s, j)' = Frame(s))
      BY <1>2, <3>1
    <3> QED
      BY <1>3, <3>2
  <2>3. ~Sound(s, i) /\ ~Sound(s, j)
    BY <1>1, <1>2, <2>1, <2>2 DEF Sorted
  <2> QED
    BY <1>3, <2>3
<1>6. Following(s)'
  <2> SUFFICES ASSUME NEW i \in 1..Len(wire'[s]), Sound(s, i)' PROVE Follows(s, i)'
    BY DEF Following
  <2>1. /\ i \in 1..Len(wire[s]) /\ FrameAt(s, i) # Frame(s) /\ Follows(s, i)
        /\ FrameAt(s, i)' = FrameAt(s, i) /\ ToAt(s, i)' = ToAt(s, i)
    BY <1>1, <1>2, <1>3 DEF Following
  <2>2. SentUpTo(s, FrameAt(s, i))' = SentUpTo(s, FrameAt(s, i))
    BY <1>1, <2>1 DEF SentUpTo, SizeOf
  <2>3. CASE i < Len(wire[s])
    <3>1. i + 1 \in 1..Len(wire[s]) /\ i < Len(wire'[s])
      BY <1>1, <1>2, <2>1, <2>3
    <3>2. FrameAt(s, i + 1)' = FrameAt(s, i + 1) /\ FromAt(s, i + 1)' = FromAt(s, i + 1)
      BY <1>1, <3>1
    <3> QED
      BY <2>1, <2>2, <2>3, <3>1, <3>2 DEF Follows
  <2>4. CASE ~(i < Len(wire[s]))
    <3>1. i < Len(wire'[s]) => FrameAt(s, i + 1)' # FrameAt(s, i)
      <4> SUFFICES ASSUME i < Len(wire'[s]) PROVE FrameAt(s, i + 1)' # FrameAt(s, i)
        OBVIOUS
      <4>1. i + 1 \in 1..Len(wire'[s]) /\ i + 1 \notin 1..Len(wire[s])
        BY <1>1, <1>2, <2>1, <2>4
      <4> QED
        BY <1>3, <2>1, <4>1
    <3> QED
      BY <2>1, <2>2, <2>4, <3>1 DEF Follows
  <2> QED
    BY <2>3, <2>4
<1>7. Opening(s)'
  <2> SUFFICES ASSUME NEW i \in 1..Len(wire'[s]), Sound(s, i)', Opens(s, i)'
               PROVE  FromAt(s, i)' = First(SizeAt(s, i)')
    BY DEF Opening
  <2>1. i \in 1..Len(wire[s]) /\ Sound(s, i)
    BY <1>3
  <2>2. i # 1 => i - 1 \in 1..Len(wire[s])
    BY <1>2, <2>1
  <2>3. Opens(s, i)
    BY <1>1, <2>1, <2>2 DEF Opens
  <2> QED
    BY <1>1, <1>2, <2>1, <2>3 DEF Opening
<1>8. Halfway(s)'
  BY <1>1 DEF Halfway
<1>9. Collected(s)'
  <2>1. Spotless(s)' => Spotless(s) /\ Frame(s) \notin rx[s].heard
    BY <1>1 DEF Spotless, Fits, Sent
  <2>2. Nothing(s) => Nothing(s)'
    BY <1>1 DEF Nothing
  <2>3. ASSUME NEW f \in rx[s].heard, Collects(s, f), f # Frame(s)
        PROVE  Collects(s, f)'
    <3>1. SizeOf(s, f)' = SizeOf(s, f)
      BY <1>1 DEF SizeOf
    <3>2. wire[s] # <<>>
      BY <2>3 DEF Collects, Expects
    <3>3. wire'[s] # <<>> /\ 1 \in 1..Len(wire[s])
      BY <1>1, <1>2, <3>2
    <3>4. FrameAt(s, 1)' = FrameAt(s, 1) /\ FromAt(s, 1)' = FromAt(s, 1)
      BY <1>1, <3>3
    <3> DEFINE m == First(SizeOf(s, f)) + Len(rx[s].data)
    <3>5. Expects(s, f, m)
      BY <2>3 DEF Collects
    <3>6. Expects(s, f, m)'
      BY <1>1, <3>1, <3>2, <3>3, <3>4, <3>5 DEF Expects
    <3> QED
      BY <1>1, <2>3, <3>1, <3>6 DEF Collects
  <2> QED
    BY <1>1, <1>2, <2>1, <2>2, <2>3 DEF Collected
<1> QED
  BY <1>1, <1>4, <1>5, <1>6, <1>7, <1>8, <1>9 DEF Journey

(* A packet that goes out as it was cut continues its frame.               *)
LEMMA OwnStep ==
  ASSUME StreamTypeOK, NEW s \in Senders, Journey(s), SendRtpPacket(s),
         wire'[s] = Append(wire[s], Own(s)), hurt'[s] = hurt[s]
  PROVE  Journey(s)'
<1> DEFINE n == SizeOf(s, Frame(s))
           at == sender[s].at
           to == at + Advance(s)
           l == Len(wire[s]) + 1
<1>1. /\ Building(s) /\ Frame(s)' = Frame(s) /\ sizes'[s] = sizes[s] /\ rx'[s] = rx[s] /\ Placed(s)'
      /\ sender'[s].at = to
      /\ \A i \in 1..Len(wire[s]) :
           /\ FrameAt(s, i)' = FrameAt(s, i) /\ SizeAt(s, i)' = SizeAt(s, i)
           /\ FromAt(s, i)' = FromAt(s, i) /\ ToAt(s, i)' = ToAt(s, i)
           /\ CarriesAt(s, i)' <=> CarriesAt(s, i)
      /\ wire'[s] \in Seq(Packet)
  BY SendMoves
<1>2. /\ Placed(s) /\ Carried(s) /\ Sorted(s) /\ Following(s) /\ Opening(s) /\ Halfway(s) /\ Collected(s)
      /\ wire[s] \in Seq(Packet) /\ Len(wire[s]) \in Nat /\ Frame(s) \in Nat
      /\ \A i \in 1..Len(wire[s]) : FrameAt(s, i) \in 1..Frame(s)
      /\ (wire[s] = <<>> <=> Len(wire[s]) <= 0)
  BY Ranges DEF Journey
<1>3. Frame(s) > 0 /\ n \in Nat /\ at \in Nat /\ Advance(s) \in Nat /\ 0 < Advance(s) /\ to <= n
      /\ First(n) - 1 <= at /\ First(n) \in {1, 2} /\ at < n
  BY <1>1, <1>2, Cut DEF Placed, First
<1>4. PICK k : k = l
  OBVIOUS
<1>5. wire'[s][k] = Own(s) /\ Len(wire'[s]) = k /\ k \in Nat /\ k - 1 = Len(wire[s]) /\ wire'[s] # <<>>
  BY <1>2, <1>4
<1>6. /\ FrameAt(s, k)' = Frame(s) /\ SizeAt(s, k)' = n /\ FromAt(s, k)' = at + 1 /\ ToAt(s, k)' = to
      /\ CarriesAt(s, k)'
  <2>1. /\ Carries(s, n, Own(s)) /\ Own(s).frame = Frame(s)
        /\ From(n, Own(s)) = at + 1 /\ To(n, Own(s)) = to
    BY <1>1, <1>2, OwnIs
  <2>2. FrameAt(s, k)' = Frame(s)
    BY <1>5, <2>1 DEF FrameAt
  <2>3. SizeAt(s, k)' = n
    BY <1>1, <2>2 DEF SizeAt, SizeOf
  <2> HIDE DEF n
  <2> QED
    BY <1>5, <2>1, <2>2, <2>3 DEF FromAt, ToAt, CarriesAt
<1>7. \A i \in 1..Len(wire'[s]) : i \in 1..Len(wire[s]) \/ i = k
  BY <1>2, <1>5
<1>8. \A i \in 1..Len(wire[s]) : Sound(s, i)' <=> Sound(s, i)
  BY <1>1 DEF Sound
<1>9. \A f : SizeOf(s, f)' = SizeOf(s, f)
  BY <1>1 DEF SizeOf
<1> HIDE DEF n, at, to, l
<1>10. Carried(s)'
  BY <1>1, <1>2, <1>6, <1>7, <1>8 DEF Carried
<1>11. Sorted(s)'
  <2> SUFFICES ASSUME NEW i \in 1..Len(wire'[s]), NEW j \in 1..Len(wire'[s]),
                      i < j, FrameAt(s, i)' > FrameAt(s, j)'
               PROVE  ~Sound(s, i)' /\ ~Sound(s, j)'
    BY DEF Sorted
  <2>1. i \in 1..Len(wire[s])
    BY <1>2, <1>5
  <2>2. j \in 1..Len(wire[s])
    <3>1. FrameAt(s, i)' \in 1..Frame(s)
      BY <1>1, <1>2, <2>1
    <3>2. ~(FrameAt(s, j)' = Frame(s))
      BY <1>2, <3>1
    <3> QED
      BY <1>6, <1>7, <3>2
  <2>3. ~Sound(s, i) /\ ~Sound(s, j)
    BY <1>1, <1>2, <2>1, <2>2 DEF Sorted
  <2> QED
    BY <1>8, <2>1, <2>2, <2>3
<1>12. Following(s)'
  <2> SUFFICES ASSUME NEW i \in 1..Len(wire'[s]), Sound(s, i)' PROVE Follows(s, i)'
    BY DEF Following
  <2>1. CASE i = k
    <3>1. SentUpTo(s, Frame(s))' = to
      BY <1>1 DEF SentUpTo
    <3>2. ~(i < Len(wire'[s]))
      BY <1>5, <2>1
    <3>3. SentUpTo(s, FrameAt(s, i))' = to
      BY <1>1, <1>6, <2>1 DEF SentUpTo
    <3> QED
      BY <1>6, <2>1, <3>2, <3>3 DEF Follows
  <2>2. CASE i \in 1..Len(wire[s])
    <3>1. /\ Sound(s, i) /\ Follows(s, i) /\ FrameAt(s, i) \in 1..Frame(s)
          /\ FrameAt(s, i)' = FrameAt(s, i) /\ ToAt(s, i)' = ToAt(s, i)
      BY <1>1, <1>2, <1>8, <2>2 DEF Following
    <3>2. CASE i < Len(wire[s])
      <4>1. i + 1 \in 1..Len(wire[s]) /\ i < Len(wire'[s])
        BY <1>2, <1>5, <2>2, <3>2
      <4>2. FrameAt(s, i + 1)' = FrameAt(s, i + 1) /\ FromAt(s, i + 1)' = FromAt(s, i + 1)
        BY <1>1, <4>1
      <4>3. CASE FrameAt(s, i + 1) = FrameAt(s, i)
        BY <3>1, <3>2, <4>1, <4>2, <4>3 DEF Follows
      <4>4. CASE FrameAt(s, i + 1) # FrameAt(s, i)
        <5>1. FrameAt(s, i) # Frame(s)
          <6> SUFFICES ASSUME FrameAt(s, i) = Frame(s) PROVE FALSE
            OBVIOUS
          <6>1. FrameAt(s, i + 1) \in 1..Frame(s)
            BY <1>2, <4>1
          <6>2. FrameAt(s, i) > FrameAt(s, i + 1) /\ i < i + 1
            BY <1>2, <2>2, <4>4, <6>1
          <6> QED
            BY <1>2, <2>2, <3>1, <4>1, <6>2 DEF Sorted
        <5>2. SentUpTo(s, FrameAt(s, i))' = SentUpTo(s, FrameAt(s, i))
          BY <1>1, <1>9, <3>1, <5>1 DEF SentUpTo
        <5> QED
          BY <3>1, <4>2, <4>4, <5>2 DEF Follows
      <4> QED
        BY <4>3, <4>4
    <3>3. CASE ~(i < Len(wire[s]))
      <4>1. i + 1 = k /\ i < Len(wire'[s])
        BY <1>2, <1>5, <2>2, <3>3
      <4>2. FrameAt(s, i + 1)' = Frame(s) /\ FromAt(s, i + 1)' = at + 1
        BY <1>6, <4>1
      <4>3. ToAt(s, i) = SentUpTo(s, FrameAt(s, i))
        BY <3>1, <3>3 DEF Follows
      <4>4. CASE FrameAt(s, i) = Frame(s)
        <5>1. ToAt(s, i) = at
          BY <4>3, <4>4 DEF SentUpTo, at
        <5> QED
          BY <3>1, <4>1, <4>2, <4>4, <5>1 DEF Follows
      <4>5. CASE FrameAt(s, i) # Frame(s)
        <5>1. SentUpTo(s, FrameAt(s, i))' = SentUpTo(s, FrameAt(s, i))
          BY <1>1, <1>9, <3>1, <4>5 DEF SentUpTo
        <5> QED
          BY <3>1, <4>2, <4>3, <4>5, <5>1 DEF Follows
      <4> QED
        BY <4>4, <4>5
    <3> QED
      BY <3>2, <3>3
  <2> QED
    BY <1>7, <2>1, <2>2
<1>13. Opening(s)'
  <2> SUFFICES ASSUME NEW i \in 1..Len(wire'[s]), Sound(s, i)', Opens(s, i)'
               PROVE  FromAt(s, i)' = First(SizeAt(s, i)')
    BY DEF Opening
  <2>1. CASE i \in 1..Len(wire[s])
    <3>1. i # 1 => i - 1 \in 1..Len(wire[s])
      BY <1>2, <2>1
    <3>2. Opens(s, i)
      BY <1>1, <2>1, <3>1 DEF Opens
    <3> QED
      BY <1>1, <1>2, <1>8, <2>1, <3>2 DEF Opening
  <2>2. CASE i = k
    <3>1. at = First(n) - 1
      <4> SUFFICES ASSUME First(n) <= at PROVE FALSE
        BY <1>3
      <4>1. Frame(s) \notin hurt[s]
        BY <1>6, <2>2 DEF Sound
      <4>2. rx[s].running
        BY <1>1, <1>5 DEF Placed
      <4>3. IF wire[s] # <<>> THEN FrameAt(s, Len(wire[s])) = Frame(s) ELSE Frame(s) \in rx[s].heard
        BY <1>2, <1>3, <4>1, <4>2 DEF Halfway, n, at
      <4>4. CASE k = 1
        <5>1. wire[s] = <<>>
          BY <1>2, <1>5, <4>4
        <5>2. FrameAt(s, k)' \notin rx'[s].heard
          BY <2>2, <4>4 DEF Opens
        <5> QED
          BY <1>1, <1>6, <4>3, <5>1, <5>2
      <4>5. CASE k # 1
        <5>1. wire[s] # <<>> /\ k - 1 \in 1..Len(wire[s])
          BY <1>2, <1>5, <4>5
        <5>2. FrameAt(s, k - 1)' # FrameAt(s, k)'
          BY <2>2, <4>5 DEF Opens
        <5>3. FrameAt(s, k - 1) = Frame(s)
          BY <1>5, <4>3, <5>1
        <5> QED
          BY <1>1, <1>6, <5>1, <5>2, <5>3
      <4> QED
        BY <4>4, <4>5
    <3> QED
      BY <1>3, <1>6, <2>2, <3>1
  <2> QED
    BY <1>7, <2>1, <2>2
<1>14. Halfway(s)'
  <2>1. FrameAt(s, Len(wire[s]))' = Frame(s)'
    BY <1>1, <1>5, <1>6 DEF FrameAt
  <2> QED
    BY <1>5, <2>1 DEF Halfway
<1>15. Collected(s)'
  <2>1. Spotless(s)' => Spotless(s)
    BY <1>1 DEF Spotless, Fits, Sent
  <2>2. Nothing(s) => Nothing(s)'
    BY <1>1 DEF Nothing
  <2>3. ASSUME NEW f \in rx[s].heard, Collects(s, f)
        PROVE  Collects(s, f)'
    <3> DEFINE m == First(SizeOf(s, f)) + Len(rx[s].data)
    <3>1. Expects(s, f, m)
      BY <2>3 DEF Collects
    <3>2. m \in Nat
      <4>1. rx[s].data \in Seq(Byte)
        BY <1>2, Ranges DEF Receiver
      <4>2. Len(rx[s].data) \in Nat /\ First(SizeOf(s, f)) \in {1, 2}
        BY <4>1 DEF First
      <4> QED
        BY <4>2
    <3>3. FrameAt(s, 1)' = f /\ FromAt(s, 1)' = m
      <4>1. CASE wire[s] # <<>>
        <5>1. 1 \in 1..Len(wire[s])
          BY <1>2, <4>1
        <5> QED
          BY <1>1, <3>1, <4>1, <5>1 DEF Expects
      <4>2. CASE wire[s] = <<>>
        <5>1. k = 1
          BY <1>2, <1>5, <4>2
        <5>2. f = Frame(s) /\ at = m - 1
          BY <3>1, <4>2 DEF Expects, at
        <5> HIDE DEF m
        <5> QED
          BY <1>3, <1>6, <3>2, <5>1, <5>2
      <4> QED
        BY <4>1, <4>2
    <3>4. Expects(s, f, m)'
      BY <1>1, <1>5, <1>9, <3>3 DEF Expects
    <3> QED
      BY <1>1, <1>9, <2>3, <3>4 DEF Collects
  <2> QED
    BY <1>1, <1>2, <2>1, <2>2, <2>3 DEF Collected
<1> QED
  BY <1>1, <1>10, <1>11, <1>12, <1>13, <1>14, <1>15 DEF Journey

(* The packet in front goes: the others move up.                           *)
LEMMA TailMoves ==
  ASSUME StreamTypeOK, NEW s \in Senders, Placed(s), wire[s] # <<>>,
         wire'[s] = Tail(wire[s]), sizes'[s] = sizes[s]
  PROVE  /\ Len(wire'[s]) = Len(wire[s]) - 1 /\ Len(wire[s]) > 0 /\ Len(wire[s]) \in Nat
         /\ wire'[s] \in Seq(Packet) /\ (wire'[s] = <<>> <=> Len(wire[s]) <= 1)
         /\ Head(wire[s]) = wire[s][1]
         /\ \A i \in 1..Len(wire'[s]) :
              /\ i + 1 \in 1..Len(wire[s])
              /\ FrameAt(s, i)' = FrameAt(s, i + 1) /\ SizeAt(s, i)' = SizeAt(s, i + 1)
              /\ FromAt(s, i)' = FromAt(s, i + 1) /\ ToAt(s, i)' = ToAt(s, i + 1)
              /\ CarriesAt(s, i)' <=> CarriesAt(s, i + 1)
<1>1. wire[s] \in Seq(Packet)
  BY Ranges
<1>2. /\ wire'[s] \in Seq(Packet) /\ Head(wire[s]) = wire[s][1]
      /\ Len(wire[s]) \in Nat /\ Len(wire[s]) > 0 /\ Len(wire'[s]) = Len(wire[s]) - 1
      /\ \A i \in 1..(Len(wire[s]) - 1) : wire'[s][i] = wire[s][i + 1]
  BY <1>1, TailIs
<1>3. wire'[s] = <<>> <=> Len(wire[s]) <= 1
  <2>1. wire'[s] = <<>> <=> Len(wire'[s]) = 0
    BY <1>2, EmptySeq
  <2>2. PICK k, l : k = Len(wire'[s]) /\ l = Len(wire[s])
    OBVIOUS
  <2>3. l \in Nat /\ l > 0 /\ k = l - 1 /\ (wire'[s] = <<>> <=> k = 0)
    BY <1>2, <2>1, <2>2
  <2>4. wire'[s] = <<>> <=> l <= 1
    BY <2>3
  <2> QED
    BY <2>2, <2>4
<1>4. ASSUME NEW i \in 1..Len(wire'[s])
      PROVE  /\ i + 1 \in 1..Len(wire[s])
             /\ FrameAt(s, i)' = FrameAt(s, i + 1) /\ SizeAt(s, i)' = SizeAt(s, i + 1)
             /\ FromAt(s, i)' = FromAt(s, i + 1) /\ ToAt(s, i)' = ToAt(s, i + 1)
             /\ CarriesAt(s, i)' <=> CarriesAt(s, i + 1)
  <2>1. i + 1 \in 1..Len(wire[s]) /\ wire'[s][i] = wire[s][i + 1]
    BY <1>2
  <2>2. sizes'[s][FrameAt(s, i + 1)] = sizes[s][FrameAt(s, i + 1)]
    OBVIOUS
  <2> QED
    BY <2>1, <2>2, SamePacket
<1> QED
  BY <1>2, <1>3, <1>4

(* What the invariant says of the others stays.                            *)
LEMMA TailStep ==
  ASSUME StreamTypeOK, NEW s \in Senders, Journey(s), wire[s] # <<>>,
         wire'[s] = Tail(wire[s]), sizes'[s] = sizes[s], sender'[s] = sender[s],
         hurt[s] \subseteq hurt'[s], hurt'[s] \subseteq 1..Frame(s),
         rx'[s].heard \subseteq 1..Frame(s), rx'[s].running
  PROVE  Placed(s)' /\ Carried(s)' /\ Sorted(s)' /\ Following(s)'
<1>1. /\ Placed(s) /\ Carried(s) /\ Sorted(s) /\ Following(s)
      /\ Frame(s)' = Frame(s) /\ \A f : SizeOf(s, f)' = SizeOf(s, f)
  BY DEF Journey, Frame, SizeOf
<1>2. /\ Len(wire'[s]) = Len(wire[s]) - 1 /\ Len(wire[s]) > 0 /\ Len(wire[s]) \in Nat
      /\ wire'[s] \in Seq(Packet)
      /\ \A i \in 1..Len(wire'[s]) :
           /\ i + 1 \in 1..Len(wire[s])
           /\ FrameAt(s, i)' = FrameAt(s, i + 1) /\ SizeAt(s, i)' = SizeAt(s, i + 1)
           /\ FromAt(s, i)' = FromAt(s, i + 1) /\ ToAt(s, i)' = ToAt(s, i + 1)
           /\ CarriesAt(s, i)' <=> CarriesAt(s, i + 1)
  BY <1>1, TailMoves
<1>3. \A i \in 1..Len(wire'[s]) : Sound(s, i)' => Sound(s, i + 1)
  BY <1>2 DEF Sound
<1>4. Placed(s)'
  <2>1. \A i \in 1..Len(wire[s]) : FrameAt(s, i) \in 1..Frame(s)
    BY <1>1, Ranges
  <2>2. \A i \in DOMAIN wire'[s] : wire'[s][i].frame \in 1..Frame(s)
    BY <1>2, <2>1 DEF FrameAt
  <2> QED
    BY <1>1, <2>2 DEF Placed, Building
<1>5. Carried(s)'
  BY <1>1, <1>2, <1>3 DEF Carried
<1>6. Sorted(s)'
  <2> SUFFICES ASSUME NEW i \in 1..Len(wire'[s]), NEW j \in 1..Len(wire'[s]),
                      i < j, FrameAt(s, i)' > FrameAt(s, j)'
               PROVE  ~Sound(s, i)' /\ ~Sound(s, j)'
    BY DEF Sorted
  <2>1. i + 1 \in 1..Len(wire[s]) /\ j + 1 \in 1..Len(wire[s]) /\ i + 1 < j + 1
        /\ FrameAt(s, i + 1) > FrameAt(s, j + 1)
    BY <1>2
  <2>2. ~Sound(s, i + 1) /\ ~Sound(s, j + 1)
    BY <1>1, <2>1 DEF Sorted
  <2> QED
    BY <1>3, <2>2
<1>7. Following(s)'
  <2> SUFFICES ASSUME NEW i \in 1..Len(wire'[s]), Sound(s, i)' PROVE Follows(s, i)'
    BY DEF Following
  <2>1. i + 1 \in 1..Len(wire[s]) /\ Follows(s, i + 1)
    BY <1>1, <1>2, <1>3 DEF Following
  <2>2. FrameAt(s, i)' = FrameAt(s, i + 1) /\ ToAt(s, i)' = ToAt(s, i + 1)
        /\ SentUpTo(s, FrameAt(s, i))' = SentUpTo(s, FrameAt(s, i + 1))
    BY <1>1, <1>2 DEF SentUpTo
  <2>3. i < Len(wire'[s]) <=> i + 1 < Len(wire[s])
    BY <1>2
  <2>4. i < Len(wire'[s]) => FrameAt(s, i + 1)' = FrameAt(s, (i + 1) + 1) /\ FromAt(s, i + 1)' = FromAt(s, (i + 1) + 1)
    <3>1. i < Len(wire'[s]) => i + 1 \in 1..Len(wire'[s])
      BY <1>2
    <3> QED
      BY <1>2, <3>1
  <2> QED
    BY <2>1, <2>2, <2>3, <2>4 DEF Follows
<1> QED
  BY <1>4, <1>5, <1>6, <1>7

(* A loss hurts the frame of the packet that was in front.                 *)
LEMMA LoseStep ==
  ASSUME StreamTypeOK, NEW s \in Senders, Journey(s), Lose(s)
  PROVE  Journey(s)'
<1>1. /\ wire[s] # <<>> /\ wire'[s] = Tail(wire[s]) /\ sizes'[s] = sizes[s]
      /\ sender'[s] = sender[s] /\ rx'[s] = rx[s]
      /\ hurt'[s] = hurt[s] \cup {Head(wire[s]).frame}
  BY DEF Lose, StreamTypeOK
<1>2. /\ Placed(s) /\ Opening(s) /\ Halfway(s) /\ Collected(s)
      /\ Frame(s)' = Frame(s) /\ \A f : SizeOf(s, f)' = SizeOf(s, f)
  BY <1>1 DEF Journey, Frame, SizeOf
<1>3. /\ Len(wire'[s]) = Len(wire[s]) - 1 /\ Len(wire[s]) > 0 /\ Len(wire[s]) \in Nat
      /\ (wire'[s] = <<>> <=> Len(wire[s]) <= 1) /\ Head(wire[s]) = wire[s][1]
      /\ \A i \in 1..Len(wire'[s]) :
           /\ i + 1 \in 1..Len(wire[s])
           /\ FrameAt(s, i)' = FrameAt(s, i + 1) /\ SizeAt(s, i)' = SizeAt(s, i + 1)
           /\ FromAt(s, i)' = FromAt(s, i + 1) /\ ToAt(s, i)' = ToAt(s, i + 1)
  BY <1>1, <1>2, TailMoves
<1>4. hurt'[s] = hurt[s] \cup {FrameAt(s, 1)} /\ 1 \in 1..Len(wire[s])
  BY <1>1, <1>3 DEF FrameAt
<1>5. Placed(s)' /\ Carried(s)' /\ Sorted(s)' /\ Following(s)'
  <2>1. /\ hurt'[s] \subseteq 1..Frame(s) /\ rx'[s].heard \subseteq 1..Frame(s) /\ rx'[s].running
    <3>1. FrameAt(s, 1) \in 1..Frame(s) /\ hurt[s] \subseteq 1..Frame(s)
      BY <1>2, <1>4, Ranges
    <3> QED
      BY <1>1, <1>2, <1>4, <3>1 DEF Placed
  <2> QED
    BY <1>1, <1>4, <2>1, TailStep
<1>6. Opening(s)'
  <2> SUFFICES ASSUME NEW i \in 1..Len(wire'[s]), Sound(s, i)', Opens(s, i)'
               PROVE  FromAt(s, i)' = First(SizeAt(s, i)')
    BY DEF Opening
  <2>1. /\ i + 1 \in 1..Len(wire[s]) /\ Sound(s, i + 1) /\ i \in Nat /\ (i + 1) - 1 = i /\ i + 1 # 1
        /\ FrameAt(s, i + 1) # FrameAt(s, 1)
    BY <1>3, <1>4 DEF Sound
  <2>2. FrameAt(s, i) # FrameAt(s, i + 1)
    <3>1. CASE i = 1
      BY <2>1, <3>1
    <3>2. CASE i # 1
      <4>1. i - 1 \in 1..Len(wire'[s]) /\ (i - 1) + 1 = i
        BY <2>1, <3>2
      <4>2. FrameAt(s, i - 1)' = FrameAt(s, i) /\ FrameAt(s, i)' = FrameAt(s, i + 1)
        BY <1>3, <4>1
      <4> QED
        BY <3>2, <4>2 DEF Opens
    <3> QED
      BY <3>1, <3>2
  <2>3. Opens(s, i + 1)
    BY <2>1, <2>2 DEF Opens
  <2> QED
    BY <1>2, <1>3, <2>1, <2>3 DEF Opening
<1>7. Halfway(s)'
  <2> SUFFICES ASSUME rx[s].running, Frame(s) > 0, Frame(s) \notin hurt'[s],
                      First(SizeOf(s, Frame(s))) <= sender[s].at, sender[s].at < SizeOf(s, Frame(s))
               PROVE  wire'[s] # <<>> /\ FrameAt(s, Len(wire[s]))' = Frame(s)
    BY <1>1, <1>2 DEF Halfway
  <2>1. FrameAt(s, Len(wire[s])) = Frame(s) /\ Frame(s) # FrameAt(s, 1)
    BY <1>1, <1>2, <1>4 DEF Halfway
  <2>2. Len(wire[s]) > 1
    <3>1. PICK l : l = Len(wire[s])
      OBVIOUS
    <3>2. l # 1
      BY <2>1, <3>1
    <3>3. l \in Nat /\ l > 0
      BY <1>3, <3>1
    <3>4. l > 1
      BY <3>2, <3>3
    <3> QED
      BY <3>1, <3>4
  <2>3. PICK k : k = Len(wire'[s])
    OBVIOUS
  <2>4. k \in 1..Len(wire'[s]) /\ k + 1 = Len(wire[s]) /\ wire'[s] # <<>>
    BY <1>3, <2>2, <2>3
  <2>5. FrameAt(s, k)' = FrameAt(s, Len(wire[s]))
    BY <1>3, <2>4
  <2>6. FrameAt(s, Len(wire[s]))' = FrameAt(s, k)'
    BY <2>3 DEF FrameAt
  <2>7. FrameAt(s, Len(wire[s]))' = Frame(s)
    BY <2>1, <2>5, <2>6
  <2>8. wire'[s] # <<>>
    BY <2>4
  <2> QED
    BY <2>7, <2>8
<1>8. Collected(s)'
  <2>1. Spotless(s)' => Spotless(s) /\ FrameAt(s, 1) \notin rx[s].heard
    <3>1. \A f : Fits(s, f)' <=> Fits(s, f)
      BY <1>1 DEF Fits, Sent
    <3>2. rx'[s] = rx[s] /\ hurt'[s] = hurt[s] \cup {FrameAt(s, 1)}
      BY <1>1, <1>4
    <3> QED
      BY <3>1, <3>2 DEF Spotless
  <2>2. Nothing(s) => Nothing(s)'
    BY <1>1 DEF Nothing
  <2>3. \A f \in rx[s].heard : Collects(s, f) => FrameAt(s, 1) \in rx[s].heard
    BY <1>1 DEF Collects, Expects
  <2> QED
    BY <1>1, <1>2, <2>1, <2>2, <2>3 DEF Collected
<1> QED
  BY <1>5, <1>6, <1>7, <1>8 DEF Journey

(* A packet that overtakes another hurts both their frames; the others are *)
(* where they were.                                                        *)
LEMMA OvertakeStep ==
  ASSUME StreamTypeOK, NEW s \in Senders, Journey(s), Overtake(s)
  PROVE  Journey(s)'
<1>1. /\ Len(wire[s]) > 1 /\ wire'[s] = <<wire[s][2], wire[s][1]>> \o SubSeq(wire[s], 3, Len(wire[s]))
      /\ sizes'[s] = sizes[s] /\ sender'[s] = sender[s] /\ rx'[s] = rx[s]
      /\ hurt'[s] = hurt[s] \cup {FrameAt(s, 1), FrameAt(s, 2)}
  BY DEF Overtake, StreamTypeOK, FrameAt
<1>2. /\ Placed(s) /\ Carried(s) /\ Sorted(s) /\ Following(s) /\ Opening(s) /\ Halfway(s) /\ Collected(s)
      /\ wire[s] \in Seq(Packet) /\ Len(wire[s]) \in Nat
      /\ \A i \in 1..Len(wire[s]) : wire[s][i] \in Packet /\ FrameAt(s, i) \in 1..Frame(s)
      /\ hurt[s] \subseteq 1..Frame(s)
      /\ Frame(s)' = Frame(s) /\ \A f : SizeOf(s, f)' = SizeOf(s, f)
  BY <1>1, Ranges DEF Journey, Frame, SizeOf
<1>3. /\ Len(wire'[s]) = Len(wire[s]) /\ wire'[s] # <<>> /\ wire[s] # <<>>
      /\ wire'[s] \in Seq(Packet)
      /\ wire'[s][1] = wire[s][2] /\ wire'[s][2] = wire[s][1]
      /\ \A i \in 3..Len(wire[s]) : wire'[s][i] = wire[s][i]
  <2> DEFINE two == <<wire[s][2], wire[s][1]>>
             more == SubSeq(wire[s], 3, Len(wire[s]))
  <2>1. two \in Seq(Packet) /\ Len(two) = 2 /\ two[1] = wire[s][2] /\ two[2] = wire[s][1]
    BY <1>1, <1>2
  <2>2. /\ more \in Seq(Packet) /\ Len(more) = Len(wire[s]) - 2
        /\ \A i \in 1..(Len(wire[s]) - 2) : more[i] = wire[s][2 + i]
    <3>1. \A i \in 3..Len(wire[s]) : wire[s][i] \in Packet
      BY <1>2
    <3>2. /\ more \in Seq(Packet)
          /\ Len(more) = IF 3 <= Len(wire[s]) THEN Len(wire[s]) - 3 + 1 ELSE 0
          /\ \A i \in 1..(Len(wire[s]) - 3 + 1) : more[i] = wire[s][3 + i - 1]
      BY <1>2, <3>1, SubSeqProperties
    <3>3. \A i \in Nat : 3 + i - 1 = 2 + i
      OBVIOUS
    <3> HIDE DEF more
    <3> QED
      BY <1>1, <1>2, <3>2, <3>3
  <2> HIDE DEF two, more
  <2>3. /\ two \o more \in Seq(Packet) /\ Len(two \o more) = Len(two) + Len(more)
        /\ \A i \in 1..(Len(two) + Len(more)) :
             (two \o more)[i] = IF i <= Len(two) THEN two[i] ELSE more[i - Len(two)]
    BY <2>1, <2>2, ConcatProperties
  <2>4. wire'[s] = two \o more
    BY <1>1 DEF two, more
  <2>5. Len(wire'[s]) = Len(wire[s]) /\ wire'[s] \in Seq(Packet)
    BY <1>1, <1>2, <2>1, <2>2, <2>3, <2>4
  <2>6. wire'[s][1] = wire[s][2] /\ wire'[s][2] = wire[s][1]
    BY <1>1, <1>2, <2>1, <2>2, <2>3, <2>4
  <2>7. \A i \in 3..Len(wire[s]) : wire'[s][i] = wire[s][i]
    <3>1. \A i \in 3..Len(wire[s]) : i - 2 \in 1..(Len(wire[s]) - 2) /\ 2 + (i - 2) = i /\ ~(i <= 2)
                                     /\ i \in 1..(2 + (Len(wire[s]) - 2))
      BY <1>2
    <3> QED
      BY <2>1, <2>2, <2>3, <2>4, <3>1
  <2>8. wire'[s] # <<>> /\ wire[s] # <<>>
    BY <1>1, <1>2, <2>5
  <2> QED
    BY <2>5, <2>6, <2>7, <2>8
<1>4. \A i \in 3..Len(wire[s]) :
        /\ FrameAt(s, i)' = FrameAt(s, i) /\ SizeAt(s, i)' = SizeAt(s, i)
        /\ FromAt(s, i)' = FromAt(s, i) /\ ToAt(s, i)' = ToAt(s, i)
        /\ CarriesAt(s, i)' <=> CarriesAt(s, i)
  BY <1>1, <1>3, SamePacket
<1>5. FrameAt(s, 1)' = FrameAt(s, 2) /\ FrameAt(s, 2)' = FrameAt(s, 1)
  BY <1>3 DEF FrameAt
<1>6. \A i \in 1..Len(wire'[s]) :
        /\ i \in 1..Len(wire[s]) /\ i \in Nat /\ i \in {1, 2} \cup 3..Len(wire[s])
        /\ Sound(s, i)' => /\ i \in 3..Len(wire[s]) /\ Sound(s, i)
                           /\ FrameAt(s, i) \notin {FrameAt(s, 1), FrameAt(s, 2)}
  <2> SUFFICES ASSUME NEW i \in 1..Len(wire'[s])
               PROVE  /\ i \in 1..Len(wire[s]) /\ i \in Nat /\ i \in {1, 2} \cup 3..Len(wire[s])
                      /\ Sound(s, i)' => /\ i \in 3..Len(wire[s]) /\ Sound(s, i)
                                         /\ FrameAt(s, i) \notin {FrameAt(s, 1), FrameAt(s, 2)}
    OBVIOUS
  <2>1. i \in 1..Len(wire[s]) /\ i \in Nat /\ i \in {1, 2} \cup 3..Len(wire[s])
    BY <1>2, <1>3
  <2>2. i \in {1, 2} => ~Sound(s, i)'
    BY <1>1, <1>5 DEF Sound
  <2>3. i \in 3..Len(wire[s]) => FrameAt(s, i)' = FrameAt(s, i)
    BY <1>4
  <2> QED
    BY <1>1, <2>1, <2>2, <2>3 DEF Sound
<1>7. Placed(s)'
  <2>1. \A i \in 1..Len(wire'[s]) : FrameAt(s, i)' \in 1..Frame(s)
    <3>1. 1 \in 1..Len(wire[s]) /\ 2 \in 1..Len(wire[s])
      BY <1>1, <1>2
    <3> QED
      BY <1>2, <1>4, <1>5, <1>6, <3>1
  <2>2. \A i \in DOMAIN wire'[s] : wire'[s][i].frame \in 1..Frame(s)
    BY <1>3, <2>1 DEF FrameAt
  <2>3. hurt'[s] \subseteq 1..Frame(s)
    BY <1>1, <1>2
  <2>4. rx[s].running
    BY <1>2, <1>3 DEF Placed
  <2>5. Building(s)' <=> Building(s)
    BY <1>1 DEF Building
  <2> QED
    BY <1>1, <1>2, <2>2, <2>3, <2>4, <2>5 DEF Placed
<1>8. Carried(s)'
  BY <1>2, <1>4, <1>6 DEF Carried
<1>9. Sorted(s)'
  <2> SUFFICES ASSUME NEW i \in 1..Len(wire'[s]), NEW j \in 1..Len(wire'[s]),
                      i < j, FrameAt(s, i)' > FrameAt(s, j)'
               PROVE  ~Sound(s, i)' /\ ~Sound(s, j)'
    BY DEF Sorted
  <2>1. CASE j \in {1, 2}
    <3>1. i \in {1, 2}
      BY <1>6, <2>1
    <3> QED
      BY <1>6, <2>1, <3>1
  <2>2. CASE j \in 3..Len(wire[s])
    <3>1. FrameAt(s, j)' = FrameAt(s, j) /\ 1 < j /\ 2 < j
      BY <1>4, <2>2
    <3>2. PICK k \in 1..Len(wire[s]) : k < j /\ FrameAt(s, i)' = FrameAt(s, k) /\ (i \notin {1, 2} => k = i)
      <4>1. 1 \in 1..Len(wire[s]) /\ 2 \in 1..Len(wire[s])
        BY <1>1, <1>2
      <4>2. CASE i \in {1, 2}
        BY <1>5, <3>1, <4>1, <4>2
      <4>3. CASE i \notin {1, 2}
        BY <1>4, <1>6, <4>3
      <4> QED
        BY <4>2, <4>3
    <3>3. ~Sound(s, k) /\ ~Sound(s, j)
      BY <1>2, <1>6, <3>1, <3>2 DEF Sorted
    <3> QED
      BY <1>6, <3>2, <3>3
  <2> QED
    BY <1>6, <2>1, <2>2
<1>10. Following(s)'
  <2> SUFFICES ASSUME NEW i \in 1..Len(wire'[s]), Sound(s, i)' PROVE Follows(s, i)'
    BY DEF Following
  <2>1. i \in 3..Len(wire[s]) /\ Follows(s, i) /\ i \in Nat
    BY <1>2, <1>6 DEF Following
  <2>2. FrameAt(s, i)' = FrameAt(s, i) /\ ToAt(s, i)' = ToAt(s, i)
        /\ SentUpTo(s, FrameAt(s, i))' = SentUpTo(s, FrameAt(s, i))
    BY <1>1, <1>2, <1>4, <2>1 DEF SentUpTo
  <2>3. i < Len(wire[s]) => FrameAt(s, i + 1)' = FrameAt(s, i + 1) /\ FromAt(s, i + 1)' = FromAt(s, i + 1)
    <3>1. i < Len(wire[s]) => i + 1 \in 3..Len(wire[s])
      BY <1>2, <2>1
    <3> QED
      BY <1>4, <3>1
  <2> QED
    BY <1>3, <2>1, <2>2, <2>3 DEF Follows
<1>11. Opening(s)'
  <2> SUFFICES ASSUME NEW i \in 1..Len(wire'[s]), Sound(s, i)', Opens(s, i)'
               PROVE  FromAt(s, i)' = First(SizeAt(s, i)')
    BY DEF Opening
  <2>1. /\ i \in 3..Len(wire[s]) /\ i \in 1..Len(wire[s]) /\ Sound(s, i) /\ i # 1
        /\ FrameAt(s, i) \notin {FrameAt(s, 1), FrameAt(s, 2)}
    BY <1>6
  <2>2. FrameAt(s, i - 1) # FrameAt(s, i)
    <3>1. CASE i = 3
      BY <2>1, <3>1
    <3>2. CASE i # 3
      <4>1. i - 1 \in 3..Len(wire[s])
        BY <1>2, <2>1, <3>2
      <4>2. FrameAt(s, i - 1)' = FrameAt(s, i - 1) /\ FrameAt(s, i)' = FrameAt(s, i)
        BY <1>4, <2>1, <4>1
      <4> QED
        BY <2>1, <4>2 DEF Opens
    <3> QED
      BY <3>1, <3>2
  <2>3. Opens(s, i)
    BY <2>1, <2>2 DEF Opens
  <2> QED
    BY <1>2, <1>4, <2>1, <2>3 DEF Opening
<1>12. Halfway(s)'
  <2> SUFFICES ASSUME rx[s].running, Frame(s) > 0, Frame(s) \notin hurt'[s],
                      First(SizeOf(s, Frame(s))) <= sender[s].at, sender[s].at < SizeOf(s, Frame(s))
               PROVE  FrameAt(s, Len(wire[s]))' = Frame(s)
    BY <1>1, <1>2, <1>3 DEF Halfway
  <2>1. PICK k : k = Len(wire[s])
    OBVIOUS
  <2>2. FrameAt(s, k) = Frame(s) /\ Frame(s) # FrameAt(s, 1) /\ Frame(s) # FrameAt(s, 2)
    BY <1>1, <1>2, <1>3, <2>1 DEF Halfway
  <2>3. k \in 3..Len(wire[s])
    <3>1. k # 1 /\ k # 2
      BY <2>2
    <3> QED
      BY <1>1, <1>2, <2>1, <3>1
  <2>4. FrameAt(s, k)' = Frame(s)
    BY <1>4, <2>2, <2>3
  <2> QED
    BY <1>3, <2>1, <2>4 DEF FrameAt
<1>13. Collected(s)'
  <2>1. Spotless(s)' => Spotless(s) /\ FrameAt(s, 1) \notin rx[s].heard
    <3>1. \A f : Fits(s, f)' <=> Fits(s, f)
      BY <1>1 DEF Fits, Sent
    <3> QED
      BY <1>1, <3>1 DEF Spotless
  <2>2. Nothing(s) => Nothing(s)'
    BY <1>1 DEF Nothing
  <2>3. \A f \in rx[s].heard : Collects(s, f) => FrameAt(s, 1) \in rx[s].heard
    BY <1>3 DEF Collects, Expects
  <2> QED
    BY <1>1, <1>2, <2>1, <2>2, <2>3 DEF Collected
<1> QED
  BY <1>7, <1>8, <1>9, <1>10, <1>11, <1>12, <1>13 DEF Journey

(* What run() makes of the packet in front: it starts anew, ends a frame   *)
(* or joins.                                                               *)
LEMMA ReceiveMoves ==
  ASSUME StreamTypeOK, NEW s \in Senders, Journey(s), ReceivePacket(s)
  PROVE  LET p == wire[s][1]
             r == rx[s]
             f == FrameAt(s, 1) IN
         /\ wire[s] # <<>> /\ wire'[s] = Tail(wire[s]) /\ 1 \in 1..Len(wire[s])
         /\ sizes'[s] = sizes[s] /\ sender'[s] = sender[s] /\ hurt'[s] = hurt[s]
         /\ rx[s].running /\ rx'[s].running /\ f \in 1..Frame(s)
         /\ \/ /\ TooLong(r, p) /\ rx'[s].heard = r.heard \cup {f}
            \/ /\ p.marker /\ rx'[s].heard = {} /\ rx'[s].data = <<>> /\ ~rx'[s].first
            \/ /\ ~p.marker /\ rx'[s].heard = r.heard \cup {f} /\ rx'[s].first
               /\ rx'[s].offset = 2 /\ rx'[s].data = Joined(r, p)
<1> DEFINE p == wire[s][1]
           q == rx[s]
           f == FrameAt(s, 1)
           r == [q EXCEPT !.offset = Offset(q, p), !.heard = @ \cup {p.frame}]
<1>1. /\ wire[s] # <<>> /\ wire'[s] = Tail(wire[s]) /\ q.running
      /\ sizes'[s] = sizes[s] /\ sender'[s] = sender[s] /\ hurt'[s] = hurt[s]
  BY DEF ReceivePacket, StreamTypeOK
<1>2. wire[s] \in Seq(Packet) /\ Len(wire[s]) \in Nat /\ (wire[s] = <<>> <=> Len(wire[s]) <= 0)
      /\ q \in Receiver /\ \A i \in 1..Len(wire[s]) : wire[s][i] \in Packet /\ FrameAt(s, i) \in 1..Frame(s)
  BY Ranges DEF Journey
<1>3. /\ 1 \in 1..Len(wire[s]) /\ Head(wire[s]) = p /\ p \in Packet /\ f \in 1..Frame(s) /\ p.frame = f
  <2>1. 1 \in 1..Len(wire[s])
    BY <1>1, <1>2
  <2>2. Head(wire[s]) = p
    BY <1>1, <1>2, TailIs
  <2> QED
    BY <1>2, <2>1, <2>2 DEF FrameAt
<1>4. rx'[s] = IF TooLong(r, p) THEN Restart(r)
               ELSE IF p.marker THEN [Restart(r) EXCEPT !.heard = {}]
               ELSE [r EXCEPT !.data = Joined(r, p), !.first = TRUE]
  BY <1>3 DEF ReceivePacket, StreamTypeOK
<1>5. Offset(q, p) \in {0, 2} /\ (~p.marker => Offset(q, p) = 2)
  BY <1>2 DEF Offset, Receiver
<1> HIDE DEF p, q, f
<1>6. /\ r \in Receiver /\ r.data = q.data /\ r.first = q.first /\ r.offset = Offset(q, p)
      /\ r.running = q.running /\ r.heard = q.heard \cup {f}
  BY <1>2, <1>3, <1>5 DEF Receiver, Packet
<1>7. Offset(r, p) = Offset(q, p)
  BY <1>6 DEF Offset
<1> HIDE DEF r
<1>8. Joined(r, p) = Joined(q, p) /\ (TooLong(r, p) <=> TooLong(q, p))
  BY <1>6, <1>7 DEF Joined, TooLong
<1>9. CASE TooLong(r, p)
  <2>1. rx'[s] = Restart(r)
    BY <1>4, <1>9
  <2>2. rx'[s].heard = q.heard \cup {f} /\ rx'[s].running
    BY <1>1, <1>6, <2>1 DEF Restart, Receiver
  <2>3. TooLong(q, p)
    BY <1>8, <1>9
  <2> QED
    BY <1>1, <1>3, <2>2, <2>3 DEF p, q, f
<1>10. CASE ~TooLong(r, p) /\ p.marker
  <2>1. rx'[s] = [Restart(r) EXCEPT !.heard = {}]
    BY <1>4, <1>10
  <2>2. /\ rx'[s].heard = {} /\ rx'[s].running
        /\ rx'[s].data = <<>> /\ ~rx'[s].first
    BY <1>1, <1>6, <2>1 DEF Restart, Receiver
  <2> QED
    BY <1>1, <1>3, <1>10, <2>2 DEF p, q, f
<1>11. CASE ~TooLong(r, p) /\ ~p.marker
  <2>1. rx'[s] = [r EXCEPT !.data = Joined(r, p), !.first = TRUE]
    BY <1>4, <1>11
  <2>2. /\ rx'[s].heard = r.heard /\ rx'[s].first /\ rx'[s].offset = r.offset
        /\ rx'[s].data = Joined(r, p) /\ rx'[s].running = r.running
    BY <1>6, <2>1 DEF Receiver
  <2> QED
    BY <1>1, <1>3, <1>5, <1>6, <1>8, <1>11, <2>2 DEF p, q, f
<1> QED
  BY <1>9, <1>10, <1>11

(* Whatever the receiver makes of it, what the invariant says of the       *)
(* packets behind it holds.                                                *)
LEMMA ReceiveOpens ==
  ASSUME StreamTypeOK, NEW s \in Senders, Journey(s), ReceivePacket(s)
  PROVE  Placed(s)' /\ Carried(s)' /\ Sorted(s)' /\ Following(s)' /\ Opening(s)' /\ Halfway(s)'
<1>1. /\ wire[s] # <<>> /\ wire'[s] = Tail(wire[s]) /\ 1 \in 1..Len(wire[s])
      /\ sizes'[s] = sizes[s] /\ sender'[s] = sender[s] /\ hurt'[s] = hurt[s]
      /\ rx[s].running /\ rx'[s].running /\ FrameAt(s, 1) \in 1..Frame(s)
      /\ \/ rx'[s].heard = rx[s].heard \cup {FrameAt(s, 1)}
         \/ wire[s][1].marker /\ rx'[s].heard = {}
  BY ReceiveMoves
<1>2. /\ Placed(s) /\ Carried(s) /\ Following(s) /\ Opening(s) /\ Halfway(s)
      /\ rx[s].heard \subseteq 1..Frame(s) /\ hurt[s] \subseteq 1..Frame(s) /\ Frame(s) \in Nat
      /\ sender[s].at \in Nat
      /\ Frame(s)' = Frame(s) /\ \A f : SizeOf(s, f)' = SizeOf(s, f)
  BY <1>1, Ranges DEF Journey, Frame, SizeOf
<1>3. /\ Len(wire'[s]) = Len(wire[s]) - 1 /\ Len(wire[s]) > 0 /\ Len(wire[s]) \in Nat
      /\ (wire'[s] = <<>> <=> Len(wire[s]) <= 1)
      /\ \A i \in 1..Len(wire'[s]) :
           /\ i + 1 \in 1..Len(wire[s])
           /\ FrameAt(s, i)' = FrameAt(s, i + 1) /\ SizeAt(s, i)' = SizeAt(s, i + 1)
           /\ FromAt(s, i)' = FromAt(s, i + 1) /\ ToAt(s, i)' = ToAt(s, i + 1)
  BY <1>1, <1>2, TailMoves
<1>4. Placed(s)' /\ Carried(s)' /\ Sorted(s)' /\ Following(s)'
  <2>1. rx'[s].heard \subseteq 1..Frame(s)
    BY <1>1, <1>2
  <2> QED
    BY <1>1, <1>2, <2>1, TailStep
(* A marker is on the last packet of a frame that is not hurt.             *)
<1>5. wire[s][1].marker /\ Sound(s, 1) => ToAt(s, 1) = SizeAt(s, 1) /\ ToAt(s, 1) \in Nat
  <2>1. Sound(s, 1) => CarriesAt(s, 1) /\ SizeAt(s, 1) \in Nat
    BY <1>1, <1>2, Ranges DEF Carried
  <2> QED
    BY <2>1 DEF CarriesAt, Carries, ToAt
<1>6. Opening(s)'
  <2> SUFFICES ASSUME NEW i \in 1..Len(wire'[s]), Sound(s, i)', Opens(s, i)'
               PROVE  FromAt(s, i)' = First(SizeAt(s, i)')
    BY DEF Opening
  <2>1. i + 1 \in 1..Len(wire[s]) /\ Sound(s, i + 1) /\ i \in Nat /\ (i + 1) - 1 = i /\ i + 1 # 1
    BY <1>1, <1>3 DEF Sound
  <2>2. FrameAt(s, i) # FrameAt(s, i + 1)
    <3>1. CASE i # 1
      <4>1. i - 1 \in 1..Len(wire'[s]) /\ (i - 1) + 1 = i
        BY <2>1, <3>1
      <4>2. FrameAt(s, i - 1)' = FrameAt(s, i) /\ FrameAt(s, i)' = FrameAt(s, i + 1)
        BY <1>3, <4>1
      <4> QED
        BY <3>1, <4>2 DEF Opens
    <3>2. CASE i = 1
      <4>1. FrameAt(s, 2) \notin rx'[s].heard /\ 2 \in 1..Len(wire[s]) /\ Sound(s, 2)
        BY <1>3, <2>1, <3>2 DEF Opens
      <4>2. CASE rx'[s].heard = rx[s].heard \cup {FrameAt(s, 1)}
        BY <3>2, <4>1, <4>2
      <4>3. CASE wire[s][1].marker
        <5> SUFFICES ASSUME FrameAt(s, 1) = FrameAt(s, 2) PROVE FALSE
          BY <3>2
        <5>1. Sound(s, 1) /\ SizeAt(s, 1) = SizeAt(s, 2)
          BY <4>1 DEF Sound, SizeAt
        <5>2. 1 < Len(wire[s])
          BY <1>3, <4>1
        <5>3. ToAt(s, 1) + 1 = FromAt(s, 2)
          BY <1>1, <1>2, <5>1, <5>2 DEF Following, Follows
        <5>4. FromAt(s, 2) <= ToAt(s, 2) /\ ToAt(s, 2) <= SizeAt(s, 2)
              /\ FromAt(s, 2) \in Nat /\ ToAt(s, 2) \in Nat /\ SizeAt(s, 2) \in Nat
          BY <1>2, <4>1, Ends
        <5> QED
          BY <1>5, <4>3, <5>1, <5>3, <5>4
      <4> QED
        BY <1>1, <4>2, <4>3
    <3> QED
      BY <3>1, <3>2
  <2>3. Opens(s, i + 1)
    BY <2>1, <2>2 DEF Opens
  <2> QED
    BY <1>2, <1>3, <2>1, <2>3 DEF Opening
<1>7. Halfway(s)'
  <2> SUFFICES ASSUME Frame(s) > 0, Frame(s) \notin hurt[s],
                      First(SizeOf(s, Frame(s))) <= sender[s].at, sender[s].at < SizeOf(s, Frame(s))
               PROVE  IF wire'[s] # <<>> THEN FrameAt(s, Len(wire[s]))' = Frame(s)
                                         ELSE Frame(s) \in rx'[s].heard
    BY <1>1, <1>2 DEF Halfway
  <2>1. PICK l : l = Len(wire[s])
    OBVIOUS
  <2>2. FrameAt(s, l) = Frame(s) /\ l \in Nat /\ l > 0
    BY <1>1, <1>2, <1>3, <2>1 DEF Halfway
  <2>3. CASE l > 1
    <3>1. PICK k : k = l - 1
      OBVIOUS
    <3>2. k \in 1..Len(wire'[s]) /\ k + 1 = l /\ k = Len(wire'[s]) /\ wire'[s] # <<>>
      BY <1>3, <2>1, <2>2, <2>3, <3>1
    <3>3. FrameAt(s, k)' = Frame(s)
      BY <1>3, <2>2, <3>2
    <3> QED
      BY <3>2, <3>3 DEF FrameAt
  <2>4. CASE ~(l > 1)
    <3>1. l = 1
      BY <2>2, <2>4
    <3>6. wire'[s] = <<>>
      BY <1>3, <2>1, <3>1
    <3>2. FrameAt(s, 1) = Frame(s) /\ Sound(s, 1) /\ SizeAt(s, 1) = SizeOf(s, Frame(s))
      BY <2>2, <3>1 DEF Sound, SizeAt
    <3>3. ~(1 < Len(wire[s]))
      BY <2>1, <3>1
    <3>4. ToAt(s, 1) = sender[s].at
      BY <1>1, <1>2, <3>2, <3>3 DEF Following, Follows, SentUpTo
    <3>5. ~wire[s][1].marker
      BY <1>2, <1>5, <3>2, <3>4
    <3> QED
      BY <1>1, <3>6, <3>2, <3>5
  <2> QED
    BY <2>3, <2>4
<1> QED
  BY <1>4, <1>6, <1>7

(* What the receiver has joined is the beginning of a frame.               *)
LEMMA ReceiveCollects ==
  ASSUME StreamTypeOK, NEW s \in Senders, Journey(s), ReceivePacket(s)
  PROVE  Collected(s)'
<1> DEFINE p == wire[s][1]
           n == SizeAt(s, 1)
           to == ToAt(s, 1)
           q == Joined(rx[s], p)
<1>0. PICK f : f = FrameAt(s, 1)
  OBVIOUS
<1>1. /\ wire[s] # <<>> /\ wire'[s] = Tail(wire[s]) /\ 1 \in 1..Len(wire[s])
      /\ sizes'[s] = sizes[s] /\ sender'[s] = sender[s] /\ hurt'[s] = hurt[s]
      /\ rx[s].running /\ rx'[s].running /\ f \in 1..Frame(s)
      /\ \/ TooLong(rx[s], p) /\ rx'[s].heard = rx[s].heard \cup {f}
         \/ /\ p.marker /\ rx'[s].heard = {} /\ rx'[s].data = <<>> /\ ~rx'[s].first
         \/ /\ ~p.marker /\ rx'[s].heard = rx[s].heard \cup {f} /\ rx'[s].first
            /\ rx'[s].offset = 2 /\ rx'[s].data = q
  BY <1>0, ReceiveMoves
<1> SUFFICES ASSUME Spotless(s)', rx'[s].heard # {} \/ ~Nothing(s)'
             PROVE  \E g \in rx'[s].heard : Collects(s, g)'
  BY DEF Collected
<1>2. rx'[s].heard = rx[s].heard \cup {f}
  BY <1>0, <1>1 DEF Nothing
<1>3. Spotless(s) /\ Sound(s, 1) /\ Fits(s, f)
  <2>1. hurt'[s] = hurt[s] /\ \A g : Fits(s, g)' <=> Fits(s, g)
    BY <1>1 DEF Fits, Sent
  <2>2. \A g \in rx[s].heard \cup {f} : g \notin hurt[s] /\ Fits(s, g)
    BY <1>2, <2>1 DEF Spotless
  <2> QED
    BY <1>0, <2>2 DEF Spotless, Sound
<1>4. /\ Placed(s) /\ Carried(s) /\ Sorted(s) /\ Following(s) /\ Frame(s) \in Nat
      /\ \A i \in 1..Len(wire[s]) : FrameAt(s, i) \in 1..Frame(s)
      /\ Frame(s)' = Frame(s) /\ \A g : SizeOf(s, g)' = SizeOf(s, g)
      /\ n = SizeOf(s, f) /\ n \in Nat /\ n > 1 /\ f \in Nat
  BY <1>0, <1>1, Ranges DEF Journey, Frame, SizeOf, SizeAt
<1>5. /\ to \in Nat /\ First(n) <= to /\ to <= n /\ First(n) \in {1, 2} /\ FromAt(s, 1) \in Nat
  <2>1. FromAt(s, 1) \in Nat /\ to \in Nat /\ First(n) <= FromAt(s, 1) /\ FromAt(s, 1) <= to /\ to <= n
    BY <1>0, <1>1, <1>3, <1>4, Ends
  <2>2. First(n) \in {1, 2}
    BY DEF First
  <2> HIDE DEF to, n
  <2> QED
    BY <1>4, <2>1, <2>2
<1>6. /\ q \in Seq(Byte) /\ Len(q) = to + 1 - First(n)
      /\ \A i \in 1..Len(q) : q[i] = ByteOf(s, f, First(n) + i - 1)
      /\ rx[s].heard \subseteq {f}
  <2>1. wire[s] # <<>>
    BY <1>1
  <2>2. /\ q \in Seq(Byte) /\ Len(q) = ToAt(s, 1) + 1 - First(SizeAt(s, 1))
        /\ \A i \in 1..Len(q) : q[i] = ByteOf(s, FrameAt(s, 1), First(SizeAt(s, 1)) + i - 1)
        /\ rx[s].heard \subseteq {FrameAt(s, 1)}
    BY <1>3, <2>1, JoinedSoFar
  <2> QED
    BY <1>0, <2>2
<1> HIDE DEF q, to
<1>7. ~TooLong(rx[s], p)
  <2>1. Len(Sent(s, f)) = n + 1 - First(n)
    BY <1>4, SentIs
  <2> HIDE DEF n
  <2>4. PICK l, k : l = Len(q) /\ k = First(n)
    OBVIOUS
  <2>5. l = to + 1 - k /\ to \in Nat /\ k \in Nat /\ n \in Nat /\ to <= n
    BY <1>4, <1>5, <1>6, <2>4
  <2>6. n + 1 - k < MaxFrame
    BY <1>3, <2>1, <2>4 DEF Fits
  <2>2. Len(q) < MaxFrame
    BY <2>4, <2>5, <2>6, StreamAssumption
  <2>3. Len(q) \in Nat /\ MaxFrame \in Nat
    BY <1>6, StreamAssumption
  <2> QED
    BY <2>2, <2>3 DEF TooLong, q
<1>8. ~p.marker /\ rx'[s].first /\ rx'[s].offset = 2 /\ rx'[s].data = q /\ rx'[s].heard = {f}
  <2>1. rx'[s].heard # {}
    BY <1>2
  <2> QED
    BY <1>0, <1>1, <1>2, <1>6, <1>7, <2>1
<1>9. ~Single(n) /\ to < n
  <2>1. Carries(s, n, p) /\ to = To(n, p)
    BY <1>0, <1>1, <1>3, <1>4 DEF Carried, CarriesAt, to, ToAt
  <2>2. to # n /\ (Single(n) => to = n)
    BY <1>8, <2>1 DEF Carries
  <2> HIDE DEF n
  <2> QED
    BY <1>4, <1>5, <2>2
<1> HIDE DEF n
<1>10. PICK m : m = First(n) + Len(q)
  OBVIOUS
<1>11. m = to + 1 /\ 0 < Len(q) /\ m <= n
  BY <1>4, <1>5, <1>6, <1>9, <1>10
<1>12. Expects(s, f, m)'
  <2>1. /\ (wire'[s] = <<>> <=> Len(wire[s]) <= 1) /\ Len(wire'[s]) = Len(wire[s]) - 1
        /\ Len(wire[s]) \in Nat /\ wire'[s] \in Seq(Packet)
        /\ \A i \in 1..Len(wire'[s]) : FrameAt(s, i)' = FrameAt(s, i + 1) /\ FromAt(s, i)' = FromAt(s, i + 1)
    BY <1>0, <1>1, <1>4, TailMoves
  <2>2. 1 < Len(wire[s]) /\ FrameAt(s, 2) = f =>
          FromAt(s, 2) = m
    <3>1. Follows(s, 1)
      BY <1>0, <1>1, <1>3, <1>4 DEF Following
    <3> QED
      BY <1>0, <1>11, <3>1 DEF Follows, to
  <2>3. ~(1 < Len(wire[s]) /\ FrameAt(s, 2) = f) => to = SentUpTo(s, f)
    <3>1. Follows(s, 1)
      BY <1>0, <1>1, <1>3, <1>4 DEF Following
    <3> QED
      BY <1>0, <3>1 DEF Follows, to
  <2>4. ~(1 < Len(wire[s]) /\ FrameAt(s, 2) = f) => f = Frame(s) /\ to = sender[s].at
    BY <1>4, <1>9, <2>3 DEF SentUpTo
  <2>5. CASE 1 < Len(wire[s])
    <3>1. 1 \in 1..Len(wire'[s]) /\ 2 \in 1..Len(wire[s]) /\ wire'[s] # <<>>
      BY <2>1, <2>5
    <3>2. FrameAt(s, 1)' = FrameAt(s, 2) /\ FromAt(s, 1)' = FromAt(s, 2)
      BY <2>1, <3>1
    <3>3. FrameAt(s, 2) = f
      <4> SUFFICES ASSUME FrameAt(s, 2) # f PROVE FALSE
        OBVIOUS
      <4>1. f = Frame(s) /\ FrameAt(s, 2) \in 1..Frame(s)
        BY <1>4, <2>4, <3>1
      <4>2. f > FrameAt(s, 2)
        BY <1>4, <4>1
      <4> QED
        BY <1>0, <1>1, <1>3, <1>4, <3>1, <4>2 DEF Sorted
    <3> QED
      BY <2>2, <2>5, <3>1, <3>2, <3>3 DEF Expects
  <2>6. CASE ~(1 < Len(wire[s]))
    <3>1. wire'[s] = <<>>
      BY <2>1, <2>6
    <3>2. sender'[s].at = m - 1 /\ f = Frame(s)'
      BY <1>0, <1>1, <1>4, <1>5, <1>11, <2>4, <2>6
    <3> QED
      BY <3>1, <3>2 DEF Expects
  <2> QED
    BY <2>5, <2>6
<1>13. Collects(s, f)'
  <2>1. SizeOf(s, f)' = n
    BY <1>4
  <2> QED
    BY <1>6, <1>8, <1>9, <1>10, <1>11, <1>12, <2>1 DEF Collects
<1> QED
  BY <1>8, <1>13

(* A receiver that ends hears nothing more.                                *)
LEMMA EndStep ==
  ASSUME StreamTypeOK, NEW s \in Senders, Journey(s), ReceiverEnds(s)
  PROVE  Journey(s)'
<1>1. /\ wire'[s] = <<>> /\ sizes'[s] = sizes[s] /\ sender'[s] = sender[s] /\ hurt'[s] = hurt[s]
      /\ ~rx'[s].running /\ rx'[s].heard = rx[s].heard
  BY DEF ReceiverEnds, StreamTypeOK, Receiver
<1>2. Placed(s) /\ Frame(s)' = Frame(s) /\ \A f : SizeOf(s, f)' = SizeOf(s, f)
  BY <1>1 DEF Journey, Frame, SizeOf
<1>3. 1..Len(wire'[s]) = {} /\ DOMAIN wire'[s] = {}
  BY <1>1
<1>4. Placed(s)'
  BY <1>1, <1>2, <1>3 DEF Placed, Building
<1>5. Carried(s)' /\ Sorted(s)' /\ Following(s)' /\ Opening(s)'
  BY <1>3 DEF Carried, Sorted, Following, Opening
<1>6. Halfway(s)' /\ Collected(s)'
  BY <1>1 DEF Halfway, Collected
<1> QED
  BY <1>4, <1>5, <1>6 DEF Journey

(* Building a packet is quiet: what the other threads make of rtp_pkt      *)
(* shows only when it is sent.                                             *)
LEMMA BuildStep ==
  ASSUME StreamTypeOK, NEW s \in Senders, Journey(s),
         SetSize(s) \/ CopyPayload(s) \/ SetRtpHeader(s) \/ SendFails(s)
  PROVE  Journey(s)'
<1>1. /\ sizes'[s] = sizes[s] /\ wire'[s] = wire[s] /\ rx'[s] = rx[s] /\ hurt'[s] = hurt[s]
  BY DEF SetSize, CopyPayload, SetRtpHeader, SendFails
<1>2. \E here, there \in {"size", "copy", "header", "send", "done"} :
        At(s, here, there) /\ here # "done" /\ here # "read" /\ there # "read"
  BY DEF SetSize, CopyPayload, SetRtpHeader, SendFails
<1>3. /\ sender'[s].at = sender[s].at /\ sender'[s].pc # "read"
      /\ sender[s].pc \in {"size", "copy", "header", "send"}
  BY <1>2 DEF At, StreamTypeOK
<1> QED
  BY <1>1, <1>3, QuietStep DEF Building

(* The steps of another thread, its network and its receiver.              *)
LEMMA OtherStep ==
  ASSUME StreamTypeOK, NEW s \in Senders, Journey(s), NEW t \in Senders, t # s,
         \/ HandleFrame(t) \/ SetSize(t) \/ CopyPayload(t) \/ SetRtpHeader(t)
         \/ SendRtpPacket(t) \/ SendFails(t)
         \/ Lose(t) \/ Overtake(t) \/ ReceivePacket(t) \/ ReceiverEnds(t)
  PROVE  Journey(s)'
<1>1. sender'[s] = sender[s]
  BY DEF HandleFrame, SetSize, CopyPayload, SetRtpHeader, SendRtpPacket, SendFails, At,
         Lose, Overtake, ReceivePacket, ReceiverEnds, StreamTypeOK
<1>2. sizes'[s] = sizes[s]
  BY DEF HandleFrame, SetSize, CopyPayload, SetRtpHeader, SendRtpPacket, SendFails,
         Lose, Overtake, ReceivePacket, ReceiverEnds, StreamTypeOK
<1>3. wire'[s] = wire[s]
  BY DEF HandleFrame, SetSize, CopyPayload, SetRtpHeader, SendRtpPacket, SendFails,
         Lose, Overtake, ReceivePacket, ReceiverEnds, StreamTypeOK
<1>4. rx'[s] = rx[s]
  BY DEF HandleFrame, SetSize, CopyPayload, SetRtpHeader, SendRtpPacket, SendFails,
         Lose, Overtake, ReceivePacket, ReceiverEnds, StreamTypeOK
<1>5. hurt'[s] = hurt[s]
  BY DEF HandleFrame, SetSize, CopyPayload, SetRtpHeader, SendRtpPacket, SendFails,
         Lose, Overtake, ReceivePacket, ReceiverEnds, StreamTypeOK
<1> QED
  BY <1>1, <1>2, <1>3, <1>4, <1>5, QuietStep DEF Building

(* A thread's own steps, and those of its network and its receiver.        *)
LEMMA OwnSteps ==
  ASSUME StreamTypeOK, NEW s \in Senders, Journey(s),
         \/ HandleFrame(s) \/ SetSize(s) \/ CopyPayload(s) \/ SetRtpHeader(s)
         \/ SendRtpPacket(s) \/ SendFails(s)
         \/ Lose(s) \/ Overtake(s) \/ ReceivePacket(s) \/ ReceiverEnds(s)
  PROVE  Journey(s)'
<1>1. CASE HandleFrame(s)
  BY <1>1, FrameStep
<1>2. CASE SetSize(s) \/ CopyPayload(s) \/ SetRtpHeader(s) \/ SendFails(s)
  BY <1>2, BuildStep
<1>3. CASE SendRtpPacket(s)
  <2>1. \/ hurt'[s] = hurt[s] \cup {Frame(s)}
        \/ wire'[s] = Append(wire[s], Own(s)) /\ hurt'[s] = hurt[s]
    BY <1>3, SendMoves
  <2> QED
    BY <1>3, <2>1, HurtStep, OwnStep
<1>4. CASE Lose(s)
  BY <1>4, LoseStep
<1>5. CASE Overtake(s)
  BY <1>5, OvertakeStep
<1>6. CASE ReceivePacket(s)
  <2>1. Placed(s)' /\ Carried(s)' /\ Sorted(s)' /\ Following(s)' /\ Opening(s)' /\ Halfway(s)'
    BY <1>6, ReceiveOpens
  <2>2. Collected(s)'
    BY <1>6, ReceiveCollects
  <2> QED
    BY <2>1, <2>2 DEF Journey
<1>7. CASE ReceiverEnds(s)
  BY <1>7, EndStep
<1> QED
  BY <1>1, <1>2, <1>3, <1>4, <1>5, <1>6, <1>7

-----------------------------------------------------------------------------
(* The theorems.                                                           *)

Streamed == StreamTypeOK /\ \A s \in Senders : Journey(s)

(* Before the first frame nothing is under way.                            *)
LEMMA StreamStarts ==
  ASSUME StreamInit PROVE Streamed
<1>1. StreamTypeOK
  <2>1. \A S : <<>> \in Seq(S)
    OBVIOUS
  <2>2. MaxFrame \in Nat /\ 0 < MaxFrame /\ MaxPayload \in Nat
    BY StreamAssumption
  <2>3. ASSUME NEW s \in Senders
        PROVE  [data |-> <<>>, first |-> FALSE, offset |-> 0, running |-> TRUE, heard |-> {}] \in Receiver
    BY <2>1 DEF Receiver
  <2>4. rx \in [Senders -> Receiver] /\ \A s \in Senders : Len(rx[s].data) < MaxFrame
    <3>1. \A s \in Senders : rx[s].data = <<>>
      BY DEF StreamInit
    <3> QED
      BY <2>2, <2>3, <3>1 DEF StreamInit
  <2>5. pkt \in [data : [1..MaxPayload -> Byte], size : 0..MaxPayload, last : BOOLEAN, marker : BOOLEAN]
    <3>1. Blank \in Byte
      BY StreamAssumption DEF Blank, Byte
    <3> QED
      BY <2>2, <3>1 DEF StreamInit
  <2> QED
    BY <2>1, <2>4, <2>5 DEF StreamInit, StreamTypeOK
<1>2. ASSUME NEW s \in Senders PROVE Journey(s)
  <2>1. /\ sizes[s] = <<>> /\ wire[s] = <<>> /\ hurt[s] = {} /\ sender[s].pc = "read"
        /\ rx[s].heard = {} /\ rx[s].data = <<>> /\ ~rx[s].first
    BY DEF StreamInit
  <2>2. Frame(s) = 0 /\ 1..Len(wire[s]) = {} /\ DOMAIN wire[s] = {} /\ 1..Frame(s) = {}
    BY <2>1 DEF Frame
  <2>3. Placed(s)
    BY <2>1, <2>2 DEF Placed, Building
  <2>4. Carried(s) /\ Sorted(s) /\ Following(s) /\ Opening(s) /\ Halfway(s)
    BY <2>2 DEF Carried, Sorted, Following, Opening, Halfway
  <2>5. Collected(s)
    BY <2>1 DEF Collected, Nothing
  <2> QED
    BY <2>3, <2>4, <2>5 DEF Journey
<1> QED
  BY <1>1, <1>2 DEF Streamed

(* Every step keeps the invariant.                                         *)
LEMMA StreamedInvariant == StreamSpec => []Streamed
<1>1. StreamInit => Streamed
  BY StreamStarts
<1>2. Streamed /\ [StreamNext]_streamVars => Streamed'
  <2> SUFFICES ASSUME Streamed, [StreamNext]_streamVars PROVE Streamed'
    OBVIOUS
  <2>1. StreamTypeOK /\ Placing /\ \A s \in Senders : Journey(s)
    BY DEF Streamed, Journey, Placing
  <2>2. CASE UNCHANGED streamVars
    <3>1. StreamTypeOK'
      BY <2>1, <2>2 DEF StreamTypeOK, streamVars
    <3>2. ASSUME NEW s \in Senders PROVE Journey(s)'
      BY <2>1, <2>2, QuietStep DEF streamVars, Building
    <3> QED
      BY <3>1, <3>2 DEF Streamed
  <2>3. CASE StreamNext
    <3>1. PICK t \in Senders :
            \/ HandleFrame(t) \/ SetSize(t) \/ CopyPayload(t) \/ SetRtpHeader(t)
            \/ SendRtpPacket(t) \/ SendFails(t)
            \/ Lose(t) \/ Overtake(t) \/ ReceivePacket(t) \/ ReceiverEnds(t)
      BY <2>3 DEF StreamNext
    <3>2. StreamTypeOK'
      BY <2>1, <3>1, SenderTyped, ReceiverTyped
    <3>3. ASSUME NEW s \in Senders PROVE Journey(s)'
      BY <2>1, <3>1, OwnSteps, OtherStep
    <3> QED
      BY <3>2, <3>3 DEF Streamed
  <2> QED
    BY <2>2, <2>3
<1> QED
  BY <1>1, <1>2, PTL DEF StreamSpec

(* The packets, the buffers and the locals of the receivers stay in their  *)
(* ranges: no payload is longer than MAX_RTP_PAYLOAD_SIZE, and no receiver *)
(* fills its buffer.  (H264Source::HandleFrame, StreamingWorker::run)      *)
THEOREM StreamTypeCorrect == StreamSpec => []StreamTypeOK
<1>1. Streamed => StreamTypeOK
  BY DEF Streamed
<1> QED
  BY <1>1, StreamedInvariant, PTL

(* What a loss, a reordering, another thread's writes or too long a frame  *)
(* spoil ends at the next marker, for any number of threads, any sizes of  *)
(* frames and any payload size.  (StreamingWorker::run)                    *)
THEOREM SpoiledSafe == StreamSpec => []SpoiledUpToMarker
<1>1. Streamed => SpoiledUpToMarker
  BY JourneySpoils DEF Streamed
<1> QED
  BY <1>1, StreamedInvariant, PTL
=============================================================================
