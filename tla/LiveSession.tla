----------------------------- MODULE LiveSession -----------------------------
(***************************************************************************)
(* Live streaming: the main thread creates the emitters while the server   *)
(* already answers (EnterpriseEmitter::createNew), the event loop runs the *)
(* RTSP commands of the clients (RtspConnection, RtpConnection), and the   *)
(* thread of each emitter pushes frames (RtspServer::PushFrame, the        *)
(* callback of MediaSession::AddSource).  PushFrame holds                  *)
(* RtspServer::mutex_ for a whole frame and the callback the session's     *)
(* map_mutex_ for a packet; DESCRIBE, SETUP and a closing connection look  *)
(* the session up under mutex_, PLAY and TEARDOWN take no lock.            *)
(***************************************************************************)
EXTENDS Naturals, FiniteSets

CONSTANTS
  Sessions,    \* the live sessions, each with its emitter
  Conns,       \* the RTSP connections, each used once
  Fds,         \* the socket descriptors: numbers, the order of clients_
  Groups,      \* the multicast addresses MulticastAddr draws from
  Transports,  \* what clients ask for in SETUP
  MaxPackets,  \* bound: packets of a frame
  MaxDescribes, \* bound: DESCRIBE requests of all clients
  None

ASSUME LiveAssumption ==
  /\ Fds \subseteq Nat \ {0} /\ IsFiniteSet(Fds)
  /\ Transports \subseteq {"multicast", "udp", "tcp"}
  /\ {MaxPackets, MaxDescribes} \subseteq Nat
  /\ None \notin Sessions \cup Conns \cup Groups \cup Fds /\ "peer" \notin Groups

VARIABLES
  created,  \* how far the main thread is with a session
  group,    \* multicast_ip_; is_multicast_ while it is an address
  sdp,      \* sdp_, None before the first DESCRIBE fills it
  early,    \* the sessions described before they were complete
  fdOf,     \* the descriptor of a connection that exists
  phase,    \* the life of a connection
  session,  \* RtspConnection::session_id_
  rtp,      \* RtpConnection; made: whether rtp_conn_ is set
  asked,    \* the sessions a connection has described
  clients,  \* MediaSession::clients_
  loop,     \* what the event loop does, and for whom
  describes, \* how many DESCRIBE requests there have been
  owner,    \* the emitter that holds RtspServer::mutex_
  push      \* where an emitter's thread is

serverVars == <<created, group, sdp, early>>
connVars == <<fdOf, phase, session, rtp, asked, describes>>
vars == <<serverVars, connVars, clients, loop, owner, push>>

LoopPcs == {"idle", "addClient", "lookUp", "removeClient"}
Stages == {"no", "added", "source", "ready"}
Rtp == [made : BOOLEAN, mode : Transports \cup {None}, to : Groups \cup {None, "peer"},
        play : BOOLEAN, closed : BOOLEAN]

TypeOK ==
  /\ created \in [Sessions -> Stages] /\ group \in [Sessions -> Groups \cup {None}]
  /\ sdp \in [Sessions -> Groups \cup {None, "empty", "unicast"}] /\ early \subseteq Sessions
  /\ fdOf \in [Conns -> Fds \cup {None}] /\ phase \in [Conns -> {"new", "open", "closed", "gone"}]
  /\ session \in [Conns -> Sessions \cup {None}] /\ rtp \in [Conns -> Rtp]
  /\ asked \in [Conns -> SUBSET Sessions] /\ describes \in 0..MaxDescribes
  /\ clients \in [Sessions -> [Fds -> Conns \cup {None}]]
  /\ loop \in [pc : LoopPcs, conn : Conns \cup {None}]
  /\ owner \in Sessions \cup {None}
  /\ push \in [Sessions -> [pc : {"idle", "packet", "client", "write", "stuck"},
                        left : 0..MaxPackets, at : Nat, sent : Nat, failed : BOOLEAN]]
  /\ \A s \in Sessions : push[s].pc # "idle" <=> owner = s

NoRtp == [made |-> FALSE, mode |-> None, to |-> None, play |-> FALSE, closed |-> FALSE]
NoPush == [pc |-> "idle", left |-> 0, at |-> 0, sent |-> 0, failed |-> FALSE]
Idle == [pc |-> "idle", conn |-> None]

Init ==
  /\ created = [s \in Sessions |-> "no"] /\ group = [s \in Sessions |-> None]
  /\ sdp = [s \in Sessions |-> None] /\ early = {}
  /\ fdOf = [c \in Conns |-> None] /\ phase = [c \in Conns |-> "new"]
  /\ session = [c \in Conns |-> None] /\ rtp = [c \in Conns |-> NoRtp]
  /\ asked = [c \in Conns |-> {}] /\ describes = 0
  /\ clients = [s \in Sessions |-> [fd \in Fds |-> None]]
  /\ loop = Idle /\ owner = None
  /\ push = [s \in Sessions |-> NoPush]

-----------------------------------------------------------------------------
(* EnterpriseEmitter::createNew, for one session after the other.          *)
Unlocked == owner = None
Creates(s, from, to) ==
  /\ created[s] = from /\ \A t \in Sessions \ {s} : created[t] \in {"no", "ready"}
  /\ created' = [created EXCEPT ![s] = to]
  /\ UNCHANGED <<early, sdp, connVars, clients, loop, owner, push>>

AddSession(s) == Unlocked /\ Creates(s, "no", "added") /\ UNCHANGED group
AddSource(s) == Creates(s, "added", "source") /\ UNCHANGED group

(* MulticastAddr::GetAddr gives up after eleven addresses in use.          *)
AnyAddress == Groups   \* a slip: an address in use is taken again
FreeAddresses == Groups \ {group[s] : s \in Sessions}
StartMulticast(s) ==
  /\ Creates(s, "source", "ready")
  /\ \E g \in FreeAddresses \cup {None} : group' = [group EXCEPT ![s] = g]

Complete == \A s \in Sessions : created[s] = "ready"

-----------------------------------------------------------------------------
(* Where an emitter's thread is in clients_.                               *)
FromSecond(s) == {fd \in Fds : fd > push[s].at + 1 /\ clients[s][fd] # None}   \* a slip
Beyond(s) == {fd \in Fds : fd > push[s].at /\ clients[s][fd] # None}
NextFd(s) == CHOOSE fd \in Beyond(s) : \A other \in Beyond(s) : fd <= other

-----------------------------------------------------------------------------
(* The event loop.                                                         *)
Accept(c) ==
  /\ loop.pc = "idle" /\ phase[c] = "new"
  /\ \E fd \in Fds \ {fdOf[d] : d \in Conns} : fdOf' = [fdOf EXCEPT ![c] = fd]
  /\ phase' = [phase EXCEPT ![c] = "open"]
  /\ UNCHANGED <<serverVars, session, rtp, asked, describes, clients, loop, owner, push>>

(* An emitter's thread that closes a connection never gives its mutex back.*)
MutexLost(c) == \E s \in Sessions : push[s].pc = "stuck" /\ clients[s][NextFd(s)] = c

(* A command is one step from where it has got mutex_, if it needs it.     *)
Command(c) ==
  /\ loop.pc = "idle" /\ phase[c] = "open" /\ ~MutexLost(c)
  /\ UNCHANGED <<fdOf, phase, owner, push>>

(* HandleCmdDescribe up to AddClient; a session that is not there is not   *)
(* found.                                                                  *)
Describe(c, s) ==
  /\ Command(c) /\ Unlocked /\ describes < MaxDescribes
  /\ describes' = describes + 1
  /\ rtp' = [rtp EXCEPT ![c].made = TRUE]
  /\ IF created[s] = "no"
     THEN UNCHANGED <<session, asked, loop>>
     ELSE /\ session' = [session EXCEPT ![c] = s]
          /\ asked' = [asked EXCEPT ![c] = @ \cup {s}]
          /\ loop' = [pc |-> "addClient", conn |-> c]
  /\ UNCHANGED <<serverVars, clients>>

Continues(pc) == loop.pc = pc /\ UNCHANGED <<fdOf, phase, describes, owner, push>>
MapUnlocked(s) == push[s].pc \in {"idle", "packet"}

(* MediaSession::GetSdpMessage.                                            *)
Unicast(s) == IF created[s] = "added" THEN "empty" ELSE "unicast"   \* a slip
Media(s) == IF created[s] = "added" THEN "empty" ELSE IF group[s] = None THEN "unicast" ELSE group[s]
SdpMessage(s) == IF sdp[s] # None THEN sdp[s] ELSE Media(s)

(* AddClient and the answer.                                               *)
AddClient ==
  LET c == loop.conn   s == session[c] IN
  /\ Continues("addClient") /\ MapUnlocked(s)
  /\ clients' = [clients EXCEPT ![s][fdOf[c]] = IF @ = None THEN c ELSE @]
  /\ sdp' = [sdp EXCEPT ![s] = SdpMessage(s)]
  /\ early' = IF created[s] = "ready" THEN early ELSE early \cup {s}
  /\ loop' = Idle
  /\ UNCHANGED <<created, group, session, rtp, asked>>

(* The transport a SETUP that is not refused sets up, and its address.     *)
Destination(s, t) == IF t = "multicast" THEN group[s] ELSE "peer"
Accepted(s, t) == (t = "multicast") <=> (group[s] # None)

Setup(c) ==
  /\ Command(c) /\ (session[c] # None => Unlocked)
  /\ \E t \in Transports :
       IF session[c] # None /\ Accepted(session[c], t)
       THEN rtp' = [rtp EXCEPT ![c].mode = t, ![c].to = Destination(session[c], t)]
       ELSE rtp' = rtp
  /\ UNCHANGED <<serverVars, session, asked, describes, clients, loop>>

Play(c) ==
  /\ Command(c)
  /\ rtp' = [rtp EXCEPT ![c].play = @ \/ rtp[c].mode # None]
  /\ UNCHANGED <<serverVars, session, asked, describes, clients, loop>>

(* RtpConnection::Teardown; rtp_conn_ may be null.                         *)
TornDown(r) == IF r.made THEN [r EXCEPT !.play = @ /\ r.closed, !.closed = TRUE] ELSE r
Teardown(c) ==
  /\ Command(c)
  /\ rtp' = [rtp EXCEPT ![c] = TornDown(@)]
  /\ UNCHANGED <<serverVars, session, asked, describes, clients, loop>>

(* The peer has closed: the connection's mutex is held until it is out of  *)
(* the session's clients, by its descriptor.                               *)
Close(c) ==
  /\ loop.pc = "idle" /\ phase[c] = "open" /\ ~MutexLost(c)
  /\ phase' = [phase EXCEPT ![c] = "closed"]
  /\ loop' = IF session[c] = None THEN Idle ELSE [pc |-> "lookUp", conn |-> c]
  /\ UNCHANGED <<serverVars, fdOf, session, rtp, asked, describes, clients, owner, push>>

OnClose ==
  /\ Continues("lookUp") /\ Unlocked
  /\ loop' = [loop EXCEPT !.pc = "removeClient"]
  /\ UNCHANGED <<serverVars, session, rtp, asked, clients>>

RemoveClient ==
  LET c == loop.conn IN
  /\ Continues("removeClient") /\ MapUnlocked(session[c])
  /\ clients' = [clients EXCEPT ![session[c]][fdOf[c]] = None]
  /\ loop' = Idle
  /\ UNCHANGED <<serverVars, session, rtp, asked>>

(* The queued RemoveConnection: the connection and its RtpConnection end.  *)
RemoveConnection(c) ==
  /\ loop.pc = "idle" /\ phase[c] = "closed"
  /\ phase' = [phase EXCEPT ![c] = "gone"]
  /\ fdOf' = [fdOf EXCEPT ![c] = None]
  /\ session' = [session EXCEPT ![c] = None] /\ asked' = [asked EXCEPT ![c] = {}]
  /\ rtp' = [rtp EXCEPT ![c] = NoRtp]
  /\ UNCHANGED <<serverVars, describes, clients, loop, owner, push>>

-----------------------------------------------------------------------------
(* An emitter's thread.                                                    *)
NumClients(s) == Cardinality({fd \in Fds : clients[s][fd] # None})

(* Without clients PushFrame returns at once, which changes nothing.       *)
PushFrame(s) ==
  /\ Complete /\ push[s].pc = "idle"
  /\ Unlocked /\ NumClients(s) # 0
  /\ owner' = s
  /\ \E n \in 1..MaxPackets : push' = [push EXCEPT ![s].pc = "packet", ![s].left = n]
  /\ UNCHANGED <<serverVars, connVars, clients, loop>>

NextPacket(s) ==
  /\ push[s].pc = "packet" /\ push[s].left > 0
  /\ push' = [push EXCEPT ![s] = [NoPush EXCEPT !.pc = "client", !.left = push[s].left - 1]]
  /\ UNCHANGED <<serverVars, connVars, clients, loop, owner>>

FrameDone(s) ==
  /\ push[s].pc = "packet" /\ push[s].left = 0
  /\ push' = [push EXCEPT ![s] = NoPush]
  /\ owner' = None
  /\ UNCHANGED <<serverVars, connVars, clients, loop>>

Sends(c) == rtp[c].play /\ ~rtp[c].closed
Breaks(s) == group[s] # None

(* SendRtpPacket has returned: any value but 0 ends the round of a         *)
(* multicast session.                                                      *)
Visited(s) == [push[s] EXCEPT !.at = NextFd(s), !.pc = IF Breaks(s) THEN "packet" ELSE "client"]

AnyTransport(c) == TRUE            \* a slip: every packet goes through TcpConnection::Send
OverTcp(c) == rtp[c].mode = "tcp"

(* One entry of clients_: SendRtpPacket returns the bytes sent or -1, so   *)
(* that on a multicast session the first connection decides.  Of a TCP     *)
(* connection that is closed Send drops the packet, and SendRtpOverTcp     *)
(* returns its size all the same.                                          *)
SendToClient(s) ==
  /\ push[s].pc = "client" /\ Beyond(s) # {}
  /\ LET fd == NextFd(s)   c == clients[s][fd] IN
       \/ /\ phase[c] = "gone"
          /\ clients' = [clients EXCEPT ![s][fd] = None]
          /\ push' = [push EXCEPT ![s].at = fd] /\ rtp' = rtp
       \/ /\ phase[c] # "gone" /\ ~Sends(c)
          /\ push' = [push EXCEPT ![s] = Visited(s)] /\ UNCHANGED <<clients, rtp>>
       \/ /\ phase[c] # "gone" /\ Sends(c) /\ ~OverTcp(c)
          /\ \/ push' = [push EXCEPT ![s] = [Visited(s) EXCEPT !.sent = @ + 1]] /\ rtp' = rtp
             \/ /\ rtp' = [rtp EXCEPT ![c] = TornDown(@)]
                /\ push' = [push EXCEPT ![s] = [Visited(s) EXCEPT !.failed = TRUE]]
          /\ UNCHANGED clients
       \/ /\ phase[c] # "gone" /\ Sends(c) /\ OverTcp(c)
          /\ push' = [push EXCEPT ![s] = IF phase[c] = "closed" THEN Visited(s)
                                         ELSE [@ EXCEPT !.pc = "write"]]
          /\ UNCHANGED <<clients, rtp>>
  /\ UNCHANGED <<serverVars, fdOf, phase, session, asked, describes, loop, owner>>

(* The loop has the mutex of a connection while it closes it.              *)
BeingClosed(c) == loop.conn = c /\ loop.pc \in {"lookUp", "removeClient"}

(* TcpConnection::Send behind its test of is_closed_: the mutex, then the  *)
(* packet is queued, or refused by a full queue; a flush that fails has    *)
(* this thread close the connection, which needs mutex_ once more.         *)
SendOverTcp(s) ==
  /\ push[s].pc = "write" /\ ~BeingClosed(clients[s][NextFd(s)])
  /\ \/ push' = [push EXCEPT ![s] = [Visited(s) EXCEPT !.sent = @ + 1]]
     \/ push' = [push EXCEPT ![s] = [Visited(s) EXCEPT !.failed = TRUE]]
     \/ push' = [push EXCEPT ![s].pc = "stuck"]
  /\ UNCHANGED <<serverVars, connVars, clients, loop, owner>>

EndOfClients(s) ==
  /\ push[s].pc = "client" /\ Beyond(s) = {}
  /\ push' = [push EXCEPT ![s].pc = "packet"]
  /\ UNCHANGED <<serverVars, connVars, clients, loop, owner>>

Push(s) ==
  NextPacket(s) \/ FrameDone(s) \/ SendToClient(s) \/ SendOverTcp(s) \/ EndOfClients(s)

Next ==
  \/ \E s \in Sessions : AddSession(s) \/ AddSource(s) \/ StartMulticast(s) \/ PushFrame(s) \/ Push(s)
  \/ \E c \in Conns : \/ Accept(c) \/ Setup(c) \/ Play(c) \/ Teardown(c) \/ Close(c) \/ RemoveConnection(c)
                      \/ \E s \in Sessions : Describe(c, s)
  \/ AddClient \/ OnClose \/ RemoveClient

Spec == Init /\ [][Next]_vars

-----------------------------------------------------------------------------
(* A client in a session's list receives the group of another session only *)
(* if it has described that one too: no group gets two sessions' packets   *)
(* otherwise.  (MulticastAddr::GetAddr, HandleCmdSetup, AddClient)         *)
StraysOnlyIfDescribed ==
  \A s, other \in Sessions : \A fd \in Fds :
    LET c == clients[s][fd] IN
      s # other /\ c # None /\ phase[c] = "open" /\ rtp[c].to # None /\ rtp[c].to = group[other]
        => {s, other} \subseteq asked[c]

(* The answer to DESCRIBE names the group clients have to join, unless     *)
(* somebody asked before the session was complete: the first answer is     *)
(* kept.  (GetSdpMessage, EnterpriseEmitter::createNew)                    *)
SdpNamesGroup ==
  \A s \in Sessions \ early : sdp[s] # None => sdp[s] = (IF group[s] = None THEN "unicast" ELSE group[s])

(* A packet reaches nobody on a session with a group only if its list has  *)
(* a connection that does not play, or a closed one over TCP, whose packet *)
(* Send drops while its caller takes it for sent, if the send failed, or   *)
(* if the connections in the list have all ended.                          *)
(* (MediaSession::AddSource, TcpConnection::Send, SendRtpOverTcp)          *)
SilentFor(s) ==
  push[s].pc \in {"client", "write"} /\ push'[s].pc = "packet" /\ push'[s].sent = 0
Deaf(c) == ~Sends(c) \/ (OverTcp(c) /\ phase[c] = "closed")
SilentOnlyIfDeafClient ==
  [][\A s \in Sessions : SilentFor(s) /\ group[s] # None =>
       \/ push'[s].failed
       \/ \A fd \in Fds : clients'[s][fd] = None
       \/ \E fd \in Fds : /\ clients[s][fd] # None
                          /\ phase[clients[s][fd]] # "gone" /\ Deaf(clients[s][fd])]_vars

(* The thread that holds mutex_, which stops every DESCRIBE and SETUP and  *)
(* every closing connection, can go on; only a client set up over TCP      *)
(* stops it for good, by closing between Send's test and its lock, or by a *)
(* send that fails and has the thread close the connection itself: OnClose *)
(* waits for mutex_ too.  (RtspServer::PushFrame, RtspConnection::OnClose) *)
StuckOnlyByTcp ==
  \A s \in Sessions : owner = s /\ ~ENABLED Push(s) =>
    \E fd \in Fds : clients[s][fd] # None /\ rtp[clients[s][fd]].mode = "tcp"
=============================================================================
