------------------------ MODULE NetworkManagerProofs ------------------------
(***************************************************************************)
(* Proofs about NetworkManager, for every number of users, emitters and    *)
(* videos, sockets of every size and messages joined or cut in any way.    *)
(***************************************************************************)
EXTENDS NetworkManager, TLAPS

(* A message that joins a socket's buffer.                                 *)
LEMMA AppendFacts ==
  ASSUME NEW S, NEW s \in Seq(S), NEW e \in S
  PROVE  /\ Append(s, e) \in Seq(S)
         /\ Len(s) \in Nat /\ Len(Append(s, e)) = Len(s) + 1
         /\ Append(s, e)[Len(s) + 1] = e
         /\ \A i \in 1..Len(s) : Append(s, e)[i] = s[i]
  OBVIOUS

(* The n first messages leave it.                                          *)
LEMMA SuffixFacts ==
  ASSUME NEW S, NEW s \in Seq(S), NEW n \in 1..Len(s)
  PROVE  /\ SubSeq(s, n + 1, Len(s)) \in Seq(S)
         /\ Len(s) \in Nat /\ Len(SubSeq(s, n + 1, Len(s))) = Len(s) - n
         /\ \A i \in 1..(Len(s) - n) : /\ SubSeq(s, n + 1, Len(s))[i] = s[n + i]
                                       /\ n + i \in 1..Len(s)
         /\ Head(s) = s[1] /\ s[1] \in S
  OBVIOUS

(* The kinds of messages, and what they carry.                             *)
LEMMA MessageFacts ==
  /\ \A k \in {"ok", "err", "garbled"} : Plain(k) \in Message /\ Plain(k).kind = k
  /\ TypeOK => ListMessage \in Message /\ ListMessage.kind = "list" /\ ListMessage.list = message
  /\ \A m \in Message : m.kind = "list" => m.list \in Lists
BY DEF Plain, Message, ListMessage, TypeOK

-----------------------------------------------------------------------------
(* Types of the lists and of publishing.                                   *)
PublishTypes ==
  /\ live \subseteq Emitters /\ times \in [Videos -> 0..MaxTime]
  /\ message \in Lists
  /\ owner \in Users \cup Emitters \cup {Nobody}
  /\ emitter \in [Emitters -> [pc : {"new", "idle", "sending"}, at : Nat, last : Nat]]
HandlerTypes ==
  /\ acceptor \in BOOLEAN /\ clients \in Seq(Users)
  /\ handler \in [Users -> {"none", "receive", "ok", "err", "lock", "list", "dead"}]
  /\ access \in [Users -> BOOLEAN]
  /\ sent \in [Users -> Lists \cup {NoList}]
SocketTypes ==
  /\ open \subseteq Users
  /\ toServer \in [Users -> Seq(Requests)] /\ toUser \in [Users -> Seq(Message)]
  /\ \A u \in Users : Len(toUser[u]) <= Room /\ Len(toServer[u]) <= Room
UserTypes ==
  /\ gui \in [Users -> {"off", "idle", "signUp", "signIn", "ask"}]
  /\ clicks \in [Users -> 0..MaxClicks] /\ running \in [Users -> BOOLEAN]
  /\ pending \in [Users -> Lists \cup {NoList}] /\ shown \in [Users -> Lists \cup {NoList}]
  /\ at \in [Users \X Threads -> {"recv", "store", "drop", "reset"}]
  /\ text \in [Users \X Threads -> Message]
  /\ merged \in [Users -> BOOLEAN] /\ beside \in [Users -> BOOLEAN]

(* The parts of the type invariant.                                        *)
LEMMA TypeParts == TypeOK <=> PublishTypes /\ HandlerTypes /\ SocketTypes /\ UserTypes
BY DEF TypeOK, PublishTypes, HandlerTypes, SocketTypes, UserTypes

(* Nothing has been published, and nobody is there, at first.              *)
LEMMA TypeInit == Init => TypeOK
<1> SUFFICES ASSUME Init PROVE TypeOK
  OBVIOUS
<1>1. 0 \in 0..MaxTime /\ 0 \in 0..MaxClicks
  BY ManagerAssumption
<1>2. PublishTypes
  BY <1>1 DEF Init, PublishTypes, Lists
<1>3. HandlerTypes
  BY DEF Init, HandlerTypes
<1>4. SocketTypes
  BY ManagerAssumption DEF Init, SocketTypes
<1>5. UserTypes
  BY <1>1, MessageFacts DEF Init, UserTypes
<1> QED
  BY <1>2, <1>3, <1>4, <1>5, TypeParts

(* Who publishes has the mutex and goes through clients that are there; a  *)
(* handler that sends a list has the mutex.                                *)
Publishing ==
  /\ \A e \in Emitters :
       /\ emitter[e].pc = "sending" <=> owner = e
       /\ owner = e => emitter[e].at \in Nat \ {0} /\ emitter[e].last <= Len(clients)
  /\ \A u \in Users :
       /\ handler[u] = "list" => owner = u
       /\ owner = u => handler[u] \in {"list", "dead"}

(* A send puts a message into a buffer with room for it.                   *)
LEMMA DeliverTypes ==
  ASSUME TypeOK, NEW u \in Users, NEW m \in Message, CanSend(u), Deliver(u, m),
         UNCHANGED <<open, toServer>>
  PROVE  SocketTypes'
<1>1. toUser[u] \in Seq(Message) /\ Room \in Nat
  BY ManagerAssumption DEF TypeOK
<1>2. CASE u \in open
  <2>1. toUser' = [toUser EXCEPT ![u] = Append(@, m)] /\ Len(toUser[u]) < Room
    BY <1>2 DEF Deliver, CanSend
  <2>2. Append(toUser[u], m) \in Seq(Message) /\ Len(Append(toUser[u], m)) <= Room
    BY <1>1, <2>1, AppendFacts
  <2> QED
    BY <2>1, <2>2 DEF TypeOK, SocketTypes
<1>3. CASE u \notin open
  BY <1>3 DEF Deliver, TypeOK, SocketTypes
<1> QED
  BY <1>2, <1>3

(* A recv takes messages away, or leaves a part of one.                    *)
LEMMA ReceiveTypes ==
  ASSUME TypeOK, NEW u \in Users, NEW t \in Threads, ReceiveMessage(u, t)
  PROVE  TypeOK'
<1> DEFINE w == toUser[u]
<1>1. w \in Seq(Message) /\ Room \in Nat /\ Len(w) <= Room
  BY ManagerAssumption DEF TypeOK
<1>2. Plain("garbled") \in Message
  BY MessageFacts
<1>3. PICK m \in Message, x \in Seq(Message) :
        /\ toUser' = [toUser EXCEPT ![u] = x] /\ Len(x) <= Room
        /\ Received(u, t, m) /\ Goes(u, t, "store")
        /\ \E hidden \in BOOLEAN : merged' = [merged EXCEPT ![u] = hidden]
        /\ UNCHANGED <<listVars, handlerVars, open, toServer, gui, clicks, running, pending, shown, beside>>
  <2>1. CASE RecvPart(u, t)
    <3>1. w # <<>> /\ toUser' = [toUser EXCEPT ![u] = [w EXCEPT ![1] = Plain("garbled")]]
      BY <2>1 DEF RecvPart
    <3>2. /\ [w EXCEPT ![1] = Plain("garbled")] \in Seq(Message)
          /\ Len([w EXCEPT ![1] = Plain("garbled")]) = Len(w)
      BY <1>1, <1>2, <3>1
    <3> HIDE DEF w
    <3>3. \E hidden \in BOOLEAN : merged' = [merged EXCEPT ![u] = hidden]
      BY <2>1 DEF RecvPart, TypeOK
    <3> QED
      BY <1>1, <1>2, <2>1, <3>1, <3>2, <3>3 DEF RecvPart
  <2>2. CASE \E n \in 1..Len(w) : Recv(u, t, n)
    <3>1. PICK n \in 1..Len(w) : Recv(u, t, n)
      BY <2>2
    <3>2. PICK m \in Decrypted(w, n) :
            Received(u, t, m) /\ merged' = [merged EXCEPT ![u] = Unseen(u, n, m)]
      BY <3>1 DEF Recv
    <3>5. Unseen(u, n, m) \in BOOLEAN
      BY DEF Unseen, TypeOK
    <3>3. m \in Message
      BY <1>1, <1>2, <3>1, <3>2, SuffixFacts DEF Decrypted
    <3>4. SubSeq(w, n + 1, Len(w)) \in Seq(Message) /\ Len(SubSeq(w, n + 1, Len(w))) <= Room
      BY <1>1, SuffixFacts
    <3> QED
      BY <3>1, <3>2, <3>3, <3>4, <3>5 DEF Recv
  <2> QED
    BY <2>1, <2>2 DEF ReceiveMessage
<1>4. PublishTypes' /\ HandlerTypes'
  BY <1>3 DEF TypeOK, PublishTypes, HandlerTypes, listVars, handlerVars
<1>5. SocketTypes'
  BY <1>3 DEF TypeOK, SocketTypes
<1>6. text' \in [Users \X Threads -> Message]
  <2>1. \A o \in Threads : text[<<u, o>>] \in Message
    BY DEF TypeOK
  <2>2. Other(t) \in Threads
    BY DEF Other, Threads
  <2>3. PICK seen \in Message :
          text' = [text EXCEPT ![<<u, t>>] = m, ![<<u, Other(t)>>] = seen]
    BY <1>2, <1>3, <2>1, <2>2 DEF Received
  <2> QED
    BY <2>3 DEF TypeOK
<1>7. UserTypes'
  BY <1>3, <1>6 DEF Goes, TypeOK, UserTypes
<1> QED
  BY <1>4, <1>5, <1>7, TypeParts DEF TypeOK, PublishTypes, HandlerTypes, SocketTypes, UserTypes

(* A thread of the user stores or drops what it has read.                  *)
LEMMA StoreTypes ==
  ASSUME TypeOK, NEW u \in Users,
         GuiStores(u) \/ WorkerStores(u) \/ WorkerDrops(u) \/ ResetStreams(u)
  PROVE  TypeOK'
<1>1. /\ UNCHANGED <<listVars, handlerVars, open, toServer, toUser, clicks, merged, beside>>
  BY DEF GuiStores, WorkerStores, WorkerDrops, ResetStreams, userKept
<1>2. PublishTypes' /\ HandlerTypes' /\ SocketTypes'
  BY <1>1 DEF TypeOK, PublishTypes, HandlerTypes, SocketTypes, listVars, handlerVars
<1>3. ASSUME NEW t \in Threads, StoreStreams(u, t)
      PROVE  /\ pending' \in [Users -> Lists \cup {NoList}]
             /\ text' \in [Users \X Threads -> Message]
  <2>1. text[<<u, t>>] \in Message /\ Plain("garbled") \in Message
    BY MessageFacts DEF TypeOK
  <2>2. text[<<u, t>>].kind = "list" => text[<<u, t>>].list \in Lists
    BY <2>1, MessageFacts
  <2> QED
    BY <1>3, <2>1, <2>2 DEF StoreStreams, TypeOK
<1>4. CASE GuiStores(u)
  <2>1. pending' \in [Users -> Lists \cup {NoList}] /\ text' \in [Users \X Threads -> Message]
    BY <1>3, <1>4 DEF GuiStores, Threads
  <2>2. UserTypes'
    BY <1>1, <1>4, <2>1 DEF GuiStores, Goes, TypeOK, UserTypes
  <2> QED
    BY <1>2, <2>2 DEF TypeOK, PublishTypes, HandlerTypes, SocketTypes, UserTypes
<1>5. CASE WorkerStores(u)
  <2>1. pending' \in [Users -> Lists \cup {NoList}] /\ text' \in [Users \X Threads -> Message]
    BY <1>3, <1>5 DEF WorkerStores, Threads
  <2>2. UserTypes'
    BY <1>1, <1>5, <2>1 DEF WorkerStores, Goes, TypeOK, UserTypes
  <2> QED
    BY <1>2, <2>2 DEF TypeOK, PublishTypes, HandlerTypes, SocketTypes, UserTypes
<1>6. CASE WorkerDrops(u) \/ ResetStreams(u)
  <2>1. UserTypes'
    BY <1>1, <1>6 DEF WorkerDrops, ResetStreams, DropLists, Goes, TypeOK, UserTypes
  <2> QED
    BY <1>2, <2>1 DEF TypeOK, PublishTypes, HandlerTypes, SocketTypes, UserTypes
<1> QED
  BY <1>4, <1>5, <1>6

(* Publishing keeps the types.                                             *)
LEMMA PublishTypeStep ==
  ASSUME TypeOK, Publishing, NEW e \in Emitters,
         UpdateLiveStream(e) \/ UpdateOnDemandStream(e) \/ SendStreamMessage(e) \/ Published(e)
  PROVE  TypeOK'
<1>1. UNCHANGED userVars /\ UserTypes'
  BY DEF TypeOK, UserTypes, userVars, UpdateLiveStream, UpdateOnDemandStream, Publish, SendStreamMessage, Published
<1>2. CASE UpdateLiveStream(e) \/ UpdateOnDemandStream(e)
  <2>1. live' \subseteq Emitters
    BY <1>2 DEF UpdateLiveStream, UpdateOnDemandStream, TypeOK
  <2>2. times' \in [Videos -> 0..MaxTime]
    <3>1. CASE UpdateLiveStream(e)
      BY <3>1 DEF UpdateLiveStream, TypeOK
    <3>2. CASE UpdateOnDemandStream(e)
      <4>1. PICK v \in VideosOf[e] : times[v] < MaxTime /\ times' = [times EXCEPT ![v] = @ + 1]
        BY <3>2 DEF UpdateOnDemandStream
      <4>2. v \in Videos
        BY <4>1 DEF Videos
      <4>3. times[v] + 1 \in 0..MaxTime
        BY <4>1, <4>2, ManagerAssumption DEF TypeOK
      <4> QED
        BY <4>1, <4>2, <4>3 DEF TypeOK
    <3> QED
      BY <1>2, <3>1, <3>2
  <2>3. Publish(e)
    BY <1>2 DEF UpdateLiveStream, UpdateOnDemandStream
  <2>4. message' \in Lists
    BY <2>1, <2>2, <2>3 DEF Publish, Lists
  <2>5. Len(clients) \in Nat
    BY DEF TypeOK
  <2>6. emitter' \in [Emitters -> [pc : {"new", "idle", "sending"}, at : Nat, last : Nat]]
    BY <2>3, <2>5 DEF Publish, TypeOK
  <2>7. PublishTypes'
    BY <2>1, <2>2, <2>3, <2>4, <2>6 DEF Publish, PublishTypes
  <2>8. HandlerTypes' /\ SocketTypes'
    BY <2>3 DEF Publish, TypeOK, HandlerTypes, SocketTypes, handlerVars
  <2> QED
    BY <1>1, <2>7, <2>8 DEF TypeOK, PublishTypes, HandlerTypes, SocketTypes, UserTypes
<1>3. CASE SendStreamMessage(e)
  <2> DEFINE u == clients[emitter[e].at]
  <2>1. emitter[e].at <= emitter[e].last /\ emitter[e].pc = "sending" /\ emitter[e] \in [pc : {"new", "idle", "sending"}, at : Nat, last : Nat]
    BY <1>3 DEF SendStreamMessage, TypeOK
  <2>2. emitter[e].at \in 1..Len(clients)
    BY <2>1 DEF Publishing, TypeOK
  <2>3. u \in Users
    BY <2>2 DEF TypeOK
  <2>4. PublishTypes'
    <3>1. emitter' = [emitter EXCEPT ![e].at = emitter[e].at + 1] /\ emitter[e].at + 1 \in Nat
      BY <1>3, <2>1 DEF SendStreamMessage, NextClient
    <3>2. emitter' \in [Emitters -> [pc : {"new", "idle", "sending"}, at : Nat, last : Nat]]
      BY <3>1, ZenonT(30) DEF TypeOK
    <3> QED
      BY <1>3, <3>2 DEF SendStreamMessage, TypeOK, PublishTypes
  <2> HIDE DEF u
  <2>5. /\ UNCHANGED <<acceptor, clients, handler, access, open, toServer>>
        /\ \/ UNCHANGED <<toUser, sent>>
           \/ CanSend(u) /\ Deliver(u, ListMessage) /\ sent' = [sent EXCEPT ![u] = message]
    BY <1>3 DEF SendStreamMessage, u
  <2>6. HandlerTypes'
    BY <2>3, <2>5, ZenonT(30) DEF TypeOK, HandlerTypes
  <2>7. SocketTypes'
    <3>1. CASE UNCHANGED toUser
      BY <2>5, <3>1 DEF TypeOK, SocketTypes
    <3> QED
      BY <2>3, <2>5, <3>1, DeliverTypes, MessageFacts
  <2> QED
    BY <1>1, <2>4, <2>6, <2>7 DEF TypeOK, PublishTypes, HandlerTypes, SocketTypes, UserTypes
<1>4. CASE Published(e)
  <2>1. PublishTypes'
    BY <1>4 DEF Published, TypeOK, PublishTypes
  <2>2. HandlerTypes' /\ SocketTypes'
    BY <1>4 DEF Published, TypeOK, HandlerTypes, SocketTypes, handlerVars
  <2> QED
    BY <1>1, <2>1, <2>2 DEF TypeOK, PublishTypes, HandlerTypes, SocketTypes, UserTypes
<1> QED
  BY <1>2, <1>3, <1>4

(* So do the handlers.                                                     *)
LEMMA HandlerTypeStep ==
  ASSUME TypeOK, NEW u \in Users,
         \/ AcceptClient(u) \/ ReceiveFails(u) \/ LockList(u)
         \/ (\E n \in 1..Len(toServer[u]) : Receive(u, n)) \/ Reply(u) \/ SendList(u)
  PROVE  TypeOK'
<1>1. UNCHANGED userVars /\ UserTypes'
  BY DEF TypeOK, UserTypes, userVars, AcceptClient, ReceiveFails, LockList, Receive, Reply, SendList
<1>2. CASE AcceptClient(u)
  <2>1. clients' \in Seq(Users)
    BY <1>2, AppendFacts DEF AcceptClient, TypeOK
  <2>2. HandlerTypes'
    BY <1>2, <2>1 DEF AcceptClient, TypeOK, HandlerTypes
  <2>3. PublishTypes' /\ SocketTypes'
    BY <1>2 DEF AcceptClient, TypeOK, PublishTypes, SocketTypes, listVars
  <2> QED
    BY <1>1, <2>2, <2>3 DEF TypeOK, PublishTypes, HandlerTypes, SocketTypes, UserTypes
<1>3. CASE ReceiveFails(u)
  <2>1. PublishTypes' /\ HandlerTypes' /\ SocketTypes'
    BY <1>3 DEF ReceiveFails, Die, TypeOK, PublishTypes, HandlerTypes, SocketTypes, listVars
  <2> QED
    BY <1>1, <2>1 DEF TypeOK, PublishTypes, HandlerTypes, SocketTypes, UserTypes
<1>4. CASE LockList(u)
  <2>1. PublishTypes' /\ HandlerTypes' /\ SocketTypes'
    BY <1>4 DEF LockList, TypeOK, PublishTypes, HandlerTypes, SocketTypes
  <2> QED
    BY <1>1, <2>1 DEF TypeOK, PublishTypes, HandlerTypes, SocketTypes, UserTypes
<1>5. CASE \E n \in 1..Len(toServer[u]) : Receive(u, n)
  <2>1. PICK n \in 1..Len(toServer[u]) : Receive(u, n)
    BY <1>5
  <2>2. toServer[u] \in Seq(Requests) /\ Len(toServer[u]) <= Room /\ Room \in Nat
    BY ManagerAssumption DEF TypeOK
  <2>3. /\ SubSeq(toServer[u], n + 1, Len(toServer[u])) \in Seq(Requests)
        /\ Len(SubSeq(toServer[u], n + 1, Len(toServer[u]))) <= Room
    BY <2>2, SuffixFacts
  <2>4. SocketTypes'
    BY <2>1, <2>3 DEF Receive, TypeOK, SocketTypes
  <2>5. HandlerTypes'
    BY <2>1 DEF Receive, Granted, AfterParsing, TypeOK, HandlerTypes
  <2>6. PublishTypes'
    BY <2>1 DEF Receive, TypeOK, PublishTypes, listVars
  <2> QED
    BY <1>1, <2>4, <2>5, <2>6 DEF TypeOK, PublishTypes, HandlerTypes, SocketTypes, UserTypes
<1>6. CASE Reply(u)
  <2>1. /\ UNCHANGED <<listVars, acceptor, clients, access, sent, open, toServer>> /\ CanSend(u)
        /\ handler' \in {[handler EXCEPT ![u] = "receive"], [handler EXCEPT ![u] = "dead"]}
        /\ handler[u] \in {"ok", "err"}
        /\ Deliver(u, Plain(handler[u])) \/ UNCHANGED toUser
    BY <1>6 DEF Reply, Die
  <2>2. PublishTypes' /\ HandlerTypes'
    BY <2>1 DEF TypeOK, PublishTypes, HandlerTypes, listVars
  <2>3. Plain(handler[u]) \in Message
    BY <2>1, MessageFacts
  <2>4. SocketTypes'
    <3>1. CASE UNCHANGED toUser
      BY <2>1, <3>1 DEF TypeOK, SocketTypes
    <3> QED
      BY <2>1, <2>3, <3>1, DeliverTypes
  <2> QED
    BY <1>1, <2>2, <2>4 DEF TypeOK, PublishTypes, HandlerTypes, SocketTypes, UserTypes
<1>7. CASE SendList(u)
  <2>1. /\ UNCHANGED <<live, times, message, emitter, acceptor, clients, access, open, toServer>>
        /\ CanSend(u)
        /\ handler' \in {[handler EXCEPT ![u] = "receive"], [handler EXCEPT ![u] = "dead"]}
        /\ owner' \in {owner, Nobody} /\ sent' \in {sent, [sent EXCEPT ![u] = message]}
        /\ Deliver(u, ListMessage) \/ UNCHANGED toUser
    BY <1>7 DEF SendList, Die
  <2>2. PublishTypes'
    BY <2>1 DEF TypeOK, PublishTypes
  <2>3. HandlerTypes'
    <3>1. handler' \in [Users -> {"none", "receive", "ok", "err", "lock", "list", "dead"}]
      BY <2>1 DEF TypeOK
    <3>2. sent' \in [Users -> Lists \cup {NoList}]
      BY <2>1, ZenonT(30) DEF TypeOK
    <3> QED
      BY <2>1, <3>1, <3>2 DEF TypeOK, HandlerTypes
  <2>4. SocketTypes'
    <3>1. CASE UNCHANGED toUser
      BY <2>1, <3>1 DEF TypeOK, SocketTypes
    <3> QED
      BY <2>1, <3>1, DeliverTypes, MessageFacts
  <2> QED
    BY <1>1, <2>2, <2>3, <2>4 DEF TypeOK, PublishTypes, HandlerTypes, SocketTypes, UserTypes
<1> QED
  BY <1>2, <1>3, <1>4, <1>5, <1>6, <1>7

(* So do the users.                                                        *)
LEMMA UserTypeStep ==
  ASSUME TypeOK, NEW u \in Users,
         InitNetworkUser(u) \/ SignUp(u) \/ SignIn(u) \/ Gui(u) \/ Worker(u) \/ Leave(u) \/ WorkerCrashes(u)
  PROVE  TypeOK'
<1>1. ASSUME NEW r \in Requests, Request(u, r)
      PROVE  PublishTypes' /\ HandlerTypes' /\ SocketTypes'
             /\ UNCHANGED <<running, at, text, pending, shown, merged>>
  <2>1. toServer[u] \in Seq(Requests) /\ Len(toServer[u]) < Room /\ Room \in Nat
    BY <1>1, ManagerAssumption DEF TypeOK, Request
  <2>2. Append(toServer[u], r) \in Seq(Requests) /\ Len(Append(toServer[u], r)) <= Room
    BY <2>1, AppendFacts
  <2>3. SocketTypes'
    BY <1>1, <2>2 DEF Request, TypeOK, SocketTypes
  <2> QED
    BY <1>1, <2>3 DEF Request, TypeOK, PublishTypes, HandlerTypes, listVars, handlerVars
<1>2. ASSUME NEW r \in Requests, NEW w \in {"signUp", "signIn"}, Click(u, r, w)
      PROVE  TypeOK'
  <2>1. clicks' \in [Users -> 0..MaxClicks]
    BY <1>2, ManagerAssumption DEF Click, TypeOK
  <2>2. UserTypes'
    BY <1>1, <1>2, <2>1 DEF Click, TypeOK, UserTypes
  <2> QED
    BY <1>1, <1>2, <2>2 DEF Click, TypeOK, PublishTypes, HandlerTypes, SocketTypes, UserTypes
<1>3. CASE SignUp(u) \/ SignIn(u)
  BY <1>2, <1>3 DEF SignUp, SignIn, Requests
<1>4. CASE AskForList(u)
  <2>1. Request(u, "GET_STREAMS") /\ "GET_STREAMS" \in Requests
    BY <1>4 DEF AskForList, Requests
  <2>2. UserTypes'
    BY <1>1, <1>4, <2>1 DEF AskForList, TypeOK, UserTypes
  <2> QED
    BY <1>1, <2>1, <2>2 DEF TypeOK, PublishTypes, HandlerTypes, SocketTypes, UserTypes
<1>5. CASE InitNetworkUser(u)
  <2>1. UserTypes' /\ SocketTypes'
    BY <1>5 DEF InitNetworkUser, TypeOK, UserTypes, SocketTypes
  <2>2. PublishTypes' /\ HandlerTypes'
    BY <1>5 DEF InitNetworkUser, TypeOK, PublishTypes, HandlerTypes, listVars, handlerVars
  <2> QED
    BY <2>1, <2>2 DEF TypeOK, PublishTypes, HandlerTypes, SocketTypes, UserTypes
<1>6. CASE Gone(u)
  <2>1. SocketTypes'
    <3>1. <<>> \in Seq(Message) /\ Len(<<>>) <= Room
      BY ManagerAssumption
    <3> QED
      BY <1>6, <3>1 DEF Gone, TypeOK, SocketTypes
  <2>2. UserTypes'
    BY <1>6, MessageFacts DEF Gone, TypeOK, UserTypes
  <2>3. PublishTypes' /\ HandlerTypes'
    BY <1>6 DEF Gone, TypeOK, PublishTypes, HandlerTypes, listVars, handlerVars
  <2> QED
    BY <2>1, <2>2, <2>3 DEF TypeOK, PublishTypes, HandlerTypes, SocketTypes, UserTypes
<1>7. CASE \E t \in Threads : ReceiveMessage(u, t)
  BY <1>7, ReceiveTypes
<1>8. CASE GuiStores(u) \/ WorkerStores(u) \/ WorkerDrops(u) \/ ResetStreams(u)
  BY <1>8, StoreTypes
<1> QED
  BY <1>3, <1>4, <1>5, <1>6, <1>7, <1>8 DEF Gui, Worker, Threads, Leave, WorkerCrashes

(* Types after any step.                                                   *)
LEMMA TypeStep ==
  ASSUME TypeOK, Publishing, [Next]_vars
  PROVE  TypeOK'
<1>1. CASE UNCHANGED vars
  BY <1>1 DEF TypeOK, vars, listVars, handlerVars, userVars
<1>2. CASE AcceptFails
  BY <1>2 DEF AcceptFails, TypeOK, listVars, userVars
<1>3. ASSUME NEW e \in Emitters,
             UpdateLiveStream(e) \/ UpdateOnDemandStream(e) \/ SendStreamMessage(e) \/ Published(e)
      PROVE  TypeOK'
  BY <1>3, PublishTypeStep
<1>4. ASSUME NEW u \in Users, AcceptClient(u) \/ Handler(u) \/ ReceiveFails(u)
      PROVE  TypeOK'
  BY <1>4, HandlerTypeStep DEF Handler
<1>5. ASSUME NEW u \in Users,
             \/ InitNetworkUser(u) \/ SignUp(u) \/ SignIn(u) \/ Gui(u) \/ Worker(u) \/ Leave(u)
             \/ WorkerCrashes(u)
      PROVE  TypeOK'
  BY <1>5, UserTypeStep
<1> QED
  BY <1>1, <1>2, <1>3, <1>4, <1>5 DEF Next

-----------------------------------------------------------------------------
(* The package is made of the lists.                                       *)
Present == message = [live |-> live, times |-> times]

InList(u, from, to) == \E i \in from..to : clients[i] = u
(* Whoever has been sent a list has access and a handler, and who has a    *)
(* handler is in the list of clients.                                      *)
Addressed(u) ==
  /\ handler[u] # "none" <=> InList(u, 1, Len(clients))
  /\ handler[u] \in {"lock", "list"} => access[u]
  /\ sent[u] # NoList => handler[u] # "none" /\ access[u]

(* A connected user has been sent the present list, or it will be sent in  *)
(* the round of sends under way.                                           *)
ToBeSent(u) == \E e \in Emitters : owner = e /\ InList(u, emitter[e].at, emitter[e].last)
Current(u) == u \in open /\ sent[u] # NoList => sent[u] = message \/ ToBeSent(u)

Sending == Publishing /\ Present /\ \A u \in Users : Addressed(u) /\ Current(u)

(* Nobody has a handler at first.                                          *)
LEMMA SendingInit == Init => Sending
<1> SUFFICES ASSUME Init PROVE Sending
  OBVIOUS
<1>1. Publishing
  BY ManagerAssumption DEF Init, Publishing
<1>2. ASSUME NEW u \in Users PROVE Addressed(u) /\ Current(u)
  <2>1. Len(clients) = 0 /\ handler[u] = "none" /\ sent[u] = NoList
    BY DEF Init
  <2> QED
    BY <2>1 DEF Addressed, Current, InList
<1> QED
  BY <1>1, <1>2 DEF Init, Sending, Present

(* What users do leaves the manager's side alone, and nobody connects who  *)
(* has a handler.                                                          *)
LEMMA SendingUser ==
  ASSUME TypeOK, Sending, UNCHANGED <<listVars, handlerVars>>,
         \A u \in Users : u \in open' => u \in open \/ handler[u] = "none"
  PROVE  Sending'
<1>1. Publishing' /\ Present'
  BY DEF Sending, Publishing, Present, listVars, handlerVars
<1>2. ASSUME NEW u \in Users PROVE Addressed(u)'
  BY DEF Sending, Addressed, InList, handlerVars
<1>3. ASSUME NEW u \in Users PROVE Current(u)'
  <2>1. ToBeSent(u)' = ToBeSent(u) /\ sent' = sent /\ message' = message /\ handler' = handler
    BY DEF ToBeSent, InList, listVars, handlerVars
  <2>2. Addressed(u) /\ Current(u)
    BY DEF Sending
  <2> QED
    BY <2>1, <2>2 DEF Current, Addressed
<1> QED
  BY <1>1, <1>2, <1>3 DEF Sending

(* Publishing begins with a round to everybody and ends when all have had  *)
(* their turn.                                                             *)
LEMMA SendingPublish ==
  ASSUME TypeOK, Sending, NEW e \in Emitters, Publish(e)
  PROVE  Sending'
<1>1. /\ owner = Nobody /\ owner' = e /\ message' = [live |-> live', times |-> times']
      /\ emitter' = [emitter EXCEPT ![e] = [pc |-> "sending", at |-> 1, last |-> Len(clients)]]
      /\ UNCHANGED <<clients, handler, access, sent, open>>
  BY DEF Publish, Unlocked, handlerVars
<1>2. emitter'[e] = [pc |-> "sending", at |-> 1, last |-> Len(clients)] /\ Len(clients) \in Nat
  BY <1>1 DEF TypeOK
<1>3. Publishing'
  <2>1. ASSUME NEW f \in Emitters
        PROVE  /\ emitter'[f].pc = "sending" <=> owner' = f
               /\ owner' = f => emitter'[f].at \in Nat \ {0} /\ emitter'[f].last <= Len(clients')
    <3>1. CASE f = e
      BY <1>1, <1>2, <3>1
    <3>2. CASE f # e
      <4>1. emitter'[f] = emitter[f]
        BY <1>1, <3>2 DEF TypeOK
      <4>2. emitter[f].pc # "sending"
        BY <1>1, ManagerAssumption DEF Sending, Publishing
      <4> QED
        BY <1>1, <3>2, <4>1, <4>2
    <3> QED
      BY <3>1, <3>2
  <2>2. ASSUME NEW u \in Users
        PROVE  /\ handler'[u] = "list" => owner' = u
               /\ owner' = u => handler'[u] \in {"list", "dead"}
    BY <1>1, ManagerAssumption DEF Sending, Publishing
  <2> QED
    BY <2>1, <2>2 DEF Publishing
<1>4. ASSUME NEW u \in Users PROVE Addressed(u)'
  BY <1>1 DEF Sending, Addressed, InList
<1>5. ASSUME NEW u \in Users PROVE Current(u)'
  <2>1. sent[u] # NoList => InList(u, 1, Len(clients))
    BY DEF Sending, Addressed
  <2>2. sent[u] # NoList => ToBeSent(u)'
    BY <1>1, <1>2, <2>1 DEF ToBeSent, InList
  <2> QED
    BY <1>1, <2>2 DEF Current
<1> QED
  BY <1>1, <1>3, <1>4, <1>5 DEF Sending, Present

(* A round of sendStreamMessage sends the list to its client, or leaves    *)
(* out a client that has never been sent one.                              *)
LEMMA SendingRound ==
  ASSUME TypeOK, Sending, NEW e \in Emitters, SendStreamMessage(e)
  PROVE  Sending'
<1> DEFINE pos == emitter[e].at
           u == clients[pos]
<1>1. /\ emitter[e].pc = "sending" /\ pos <= emitter[e].last
      /\ emitter' = [emitter EXCEPT ![e].at = pos + 1]
      /\ UNCHANGED <<live, times, message, owner, clients, handler, access, open>>
      /\ \/ ~access[u] /\ UNCHANGED sent
         \/ access[u] /\ sent' = [sent EXCEPT ![u] = message]
  BY DEF SendStreamMessage, NextClient, GotAccess
<1>2. /\ owner = e /\ pos \in Nat \ {0} /\ emitter[e].last \in Nat /\ emitter[e].last <= Len(clients)
      /\ emitter[e] \in [pc : {"new", "idle", "sending"}, at : Nat, last : Nat]
  BY <1>1 DEF Sending, Publishing, TypeOK
<1>3. pos \in 1..Len(clients) /\ u \in Users
  BY <1>1, <1>2, SMTT(30) DEF TypeOK
<1>4. /\ emitter'[e].pc = "sending" /\ emitter'[e].at = pos + 1 /\ emitter'[e].last = emitter[e].last
      /\ \A f \in Emitters \ {e} : emitter'[f] = emitter[f]
  BY <1>1, <1>2 DEF TypeOK
<1>5. Publishing'
  BY <1>1, <1>2, <1>4 DEF Sending, Publishing
<1>6. Present'
  BY <1>1 DEF Sending, Present
<1>7. message # NoList /\ message \in Lists
  BY ManagerAssumption DEF TypeOK
<1> HIDE DEF u, pos
<1>8. ASSUME NEW v \in Users PROVE Addressed(v)'
  <2>1. Addressed(v)
    BY DEF Sending
  <2>2. InList(v, 1, Len(clients))' = InList(v, 1, Len(clients))
    BY <1>1 DEF InList
  <2>3. v # u => sent'[v] = sent[v]
    BY <1>1, <1>3 DEF TypeOK
  <2>4. handler[u] # "none"
    <3>1. InList(u, 1, Len(clients))
      BY <1>3 DEF InList, u
    <3> QED
      BY <1>3, <3>1 DEF Sending, Addressed
  <2> QED
    BY <1>1, <2>1, <2>2, <2>3, <2>4 DEF Addressed
<1>9. ASSUME NEW v \in Users PROVE Current(v)'
  <2>1. CASE v = u /\ access[u]
    <3>1. sent'[v] = message
      BY <1>1, <1>3, <2>1 DEF TypeOK
    <3> QED
      BY <1>1, <3>1 DEF Current
  <2>2. CASE v = u /\ ~access[u]
    <3>1. sent'[v] = NoList
      BY <1>1, <1>3, <2>2 DEF Sending, Addressed
    <3> QED
      BY <3>1 DEF Current
  <2>3. CASE v # u
    <3>1. sent'[v] = sent[v] /\ Current(v)
      BY <1>1, <1>3, <2>3 DEF TypeOK, Sending
    <3>2. ToBeSent(v) => ToBeSent(v)'
      <4>1. SUFFICES ASSUME InList(v, pos, emitter[e].last) PROVE InList(v, pos + 1, emitter[e].last)
        BY <1>1, <1>2, <1>4 DEF ToBeSent, InList, pos
      <4>2. PICK i \in pos..emitter[e].last : clients[i] = v
        BY <4>1 DEF InList
      <4>3. i # pos
        BY <2>3, <4>2 DEF u, pos
      <4>4. pos \in Nat
        BY <1>2 DEF pos
      <4>5. i \in pos + 1..emitter[e].last
        BY <1>2, <4>2, <4>3, <4>4
      <4> QED
        BY <4>2, <4>5 DEF InList
    <3> QED
      BY <1>1, <3>1, <3>2 DEF Current
  <2> QED
    BY <2>1, <2>2, <2>3
<1> QED
  BY <1>5, <1>6, <1>8, <1>9 DEF Sending

(* When the round is over nobody is left to be sent the list.              *)
LEMMA SendingPublished ==
  ASSUME TypeOK, Sending, NEW e \in Emitters, Published(e)
  PROVE  Sending'
<1>1. /\ emitter[e].pc = "sending" /\ emitter[e].at > emitter[e].last
      /\ owner' = Nobody /\ emitter' = [emitter EXCEPT ![e] = [pc |-> "idle", at |-> 0, last |-> 0]]
      /\ UNCHANGED <<live, times, message, clients, handler, access, sent, open>>
  BY DEF Published, handlerVars
<1>2. owner = e /\ emitter[e].at \in Nat /\ emitter[e].last \in Nat
  BY <1>1 DEF Sending, Publishing, TypeOK
<1>3. Publishing'
  <2>1. ASSUME NEW f \in Emitters PROVE emitter'[f].pc # "sending" /\ owner' # f
    BY <1>1, <1>2, ManagerAssumption DEF Sending, Publishing, TypeOK
  <2>2. ASSUME NEW u \in Users PROVE handler[u] # "list" /\ owner' # u
    BY <1>1, <1>2, ManagerAssumption DEF Sending, Publishing
  <2> QED
    BY <1>1, <2>1, <2>2 DEF Publishing
<1>4. ASSUME NEW u \in Users PROVE Addressed(u)' /\ Current(u)'
  <2>1. ~ToBeSent(u)
    BY <1>1, <1>2 DEF ToBeSent, InList
  <2> QED
    BY <1>1, <2>1 DEF Sending, Addressed, Current, InList
<1> QED
  BY <1>1, <1>3, <1>4 DEF Sending, Present

(* A new client is added behind those of a round under way.                *)
LEMMA SendingAccept ==
  ASSUME TypeOK, Sending, NEW u \in Users, AcceptClient(u)
  PROVE  Sending'
<1>1. /\ handler[u] = "none" /\ clients' = Append(clients, u)
      /\ handler' = [handler EXCEPT ![u] = "receive"]
      /\ UNCHANGED <<live, times, message, owner, emitter, access, sent, open>>
  BY DEF AcceptClient, listVars
<1>2. /\ Len(clients) \in Nat /\ Len(clients') = Len(clients) + 1
      /\ clients'[Len(clients) + 1] = u
      /\ \A i \in 1..Len(clients) : clients'[i] = clients[i]
  BY <1>1, AppendFacts DEF TypeOK
<1>3. Publishing'
  <2>1. ASSUME NEW e \in Emitters, owner = e PROVE emitter[e].last <= Len(clients')
    <3>1. emitter[e].last \in Nat /\ emitter[e].last <= Len(clients)
      BY <2>1 DEF Sending, Publishing, TypeOK
    <3> QED
      BY <1>2, <3>1
  <2>2. ASSUME NEW v \in Users PROVE handler'[v] = IF v = u THEN "receive" ELSE handler[v]
    BY <1>1 DEF TypeOK
  <2> QED
    BY <1>1, <2>1, <2>2 DEF Sending, Publishing
<1>4. ASSUME NEW v \in Users PROVE Addressed(v)'
  <2>1. InList(v, 1, Len(clients))' <=> InList(v, 1, Len(clients)) \/ v = u
    BY <1>2 DEF InList
  <2>2. v # u => handler'[v] = handler[v]
    BY <1>1 DEF TypeOK
  <2>3. handler'[u] = "receive"
    BY <1>1 DEF TypeOK
  <2> QED
    BY <1>1, <2>1, <2>2, <2>3 DEF Sending, Addressed
<1>5. ASSUME NEW v \in Users PROVE Current(v)'
  <2>1. ASSUME ToBeSent(v) PROVE ToBeSent(v)'
    <3>1. PICK e \in Emitters : owner = e /\ InList(v, emitter[e].at, emitter[e].last)
      BY <2>1 DEF ToBeSent
    <3>2. emitter[e].at \in Nat \ {0} /\ emitter[e].last <= Len(clients) /\ emitter[e].last \in Nat
      BY <3>1 DEF Sending, Publishing, TypeOK
    <3>3. InList(v, emitter[e].at, emitter[e].last)'
      BY <1>1, <1>2, <3>1, <3>2 DEF InList
    <3> QED
      BY <1>1, <3>1, <3>3 DEF ToBeSent
  <2> QED
    BY <1>1, <2>1 DEF Sending, Current
<1> QED
  BY <1>1, <1>3, <1>4, <1>5 DEF Sending, Present

(* A handler receives and answers without the mutex, or ends.              *)
LEMMA SendingHandler ==
  ASSUME TypeOK, Sending, NEW u \in Users,
         ReceiveFails(u) \/ Reply(u) \/ \E n \in 1..Len(toServer[u]) : Receive(u, n)
  PROVE  Sending'
<1>1. /\ UNCHANGED <<listVars, clients, sent, open>>
      /\ handler[u] \in {"receive", "ok", "err"}
      /\ \E place \in {"receive", "ok", "err", "lock", "dead"} : handler' = [handler EXCEPT ![u] = place]
      /\ \E got \in BOOLEAN : access' = [access EXCEPT ![u] = @ \/ got]
      /\ handler'[u] = "lock" => access'[u]
  <2>1. CASE ReceiveFails(u) \/ Reply(u)
    <3>1. access' = [access EXCEPT ![u] = @ \/ FALSE]
      BY <2>1 DEF ReceiveFails, Reply, TypeOK
    <3> QED
      BY <2>1, <3>1 DEF ReceiveFails, Reply, Die, TypeOK
  <2>2. CASE \E n \in 1..Len(toServer[u]) : Receive(u, n)
    BY <2>2 DEF Receive, Granted, AfterParsing, TypeOK
  <2> QED
    BY <2>1, <2>2
<1>2. Publishing'
  BY <1>1 DEF Sending, Publishing, listVars, TypeOK
<1>3. ASSUME NEW v \in Users PROVE Addressed(v)'
  BY <1>1, SMTT(30) DEF Sending, Addressed, InList, TypeOK
<1>4. ASSUME NEW v \in Users PROVE Current(v)'
  BY <1>1 DEF Sending, Current, ToBeSent, InList, listVars
<1> QED
  BY <1>1, <1>2, <1>3, <1>4 DEF Sending, Present, listVars

(* GET_STREAMS is answered with the list under the mutex.                  *)
LEMMA SendingList ==
  ASSUME TypeOK, Sending, NEW u \in Users, LockList(u) \/ SendList(u)
  PROVE  Sending'
<1>1. /\ UNCHANGED <<live, times, message, emitter, clients, access, open>>
      /\ handler[u] \in {"lock", "list"} /\ access[u]
      /\ \E place \in {"list", "receive", "dead"} : handler' = [handler EXCEPT ![u] = place]
      /\ sent' \in {sent, [sent EXCEPT ![u] = message]}
  BY DEF LockList, SendList, Die, Sending, Addressed
<1>2. message # NoList
  BY ManagerAssumption DEF TypeOK
<1>3. /\ \/ owner = Nobody /\ owner' = u /\ handler'[u] = "list"
         \/ owner = u /\ owner' = Nobody /\ handler'[u] = "receive"
         \/ owner = u /\ owner' = u /\ handler'[u] = "dead"
  BY DEF LockList, SendList, Die, Unlocked, Sending, Publishing, TypeOK
<1>4. Publishing'
  <2>1. ASSUME NEW e \in Emitters PROVE owner # e /\ owner' # e
    BY <1>3, ManagerAssumption
  <2>2. ASSUME NEW v \in Users, v # u PROVE handler'[v] = handler[v] /\ owner # v /\ owner' # v
    BY <1>1, <1>3, <2>2, ManagerAssumption DEF TypeOK
  <2>3. \A e \in Emitters : emitter'[e].pc # "sending"
    BY <1>1, <2>1 DEF Sending, Publishing
  <2>4. ASSUME NEW v \in Users
        PROVE  /\ handler'[v] = "list" => owner' = v
               /\ owner' = v => handler'[v] \in {"list", "dead"}
    <3>1. CASE v = u
      <4>1. Nobody # u
        BY ManagerAssumption
      <4> QED
        BY <1>3, <3>1, <4>1
    <3>2. CASE v # u
      BY <2>2, <3>2 DEF Sending, Publishing
    <3> QED
      BY <3>1, <3>2
  <2> QED
    BY <2>1, <2>3, <2>4 DEF Publishing
<1>5. ASSUME NEW v \in Users PROVE Addressed(v)' /\ Current(v)'
  <2>1. InList(v, 1, Len(clients))' = InList(v, 1, Len(clients)) /\ ~ToBeSent(v)
    BY <1>1, <1>3, ManagerAssumption DEF InList, ToBeSent
  <2>2. v # u => handler'[v] = handler[v] /\ sent'[v] = sent[v]
    BY <1>1 DEF TypeOK
  <2>3. handler'[u] # "none" /\ sent'[u] \in {sent[u], message}
    BY <1>1 DEF TypeOK
  <2> QED
    BY <1>1, <2>1, <2>2, <2>3 DEF Sending, Addressed, Current
<1> QED
  BY <1>1, <1>4, <1>5 DEF Sending, Present

(* Every step keeps it.                                                    *)
LEMMA SendingStep ==
  ASSUME TypeOK, Sending, [Next]_vars
  PROVE  Sending'
<1>1. ASSUME NEW e \in Emitters,
             UpdateLiveStream(e) \/ UpdateOnDemandStream(e) \/ SendStreamMessage(e) \/ Published(e)
      PROVE  Sending'
  BY <1>1, SendingPublish, SendingRound, SendingPublished DEF UpdateLiveStream, UpdateOnDemandStream
<1>2. ASSUME NEW u \in Users, AcceptClient(u) \/ Handler(u) \/ ReceiveFails(u)
      PROVE  Sending'
  BY <1>2, SendingAccept, SendingHandler, SendingList DEF Handler
<1>5. CASE AcceptFails
  BY <1>5 DEF AcceptFails, Sending, Publishing, Present, Addressed, Current, ToBeSent, InList, listVars
<1>3. ASSUME NEW u \in Users,
             \/ InitNetworkUser(u) \/ SignUp(u) \/ SignIn(u) \/ Gui(u) \/ Worker(u) \/ Leave(u)
             \/ WorkerCrashes(u)
      PROVE  Sending'
  <2>1. /\ UNCHANGED <<listVars, handlerVars>>
        /\ \A v \in Users : v \in open' => v \in open \/ handler[v] = "none"
    BY <1>3 DEF InitNetworkUser, SignUp, SignIn, Click, Request, Gui, AskForList, Worker, ReceiveMessage,
                Recv, RecvPart, GuiStores, WorkerStores, WorkerDrops, ResetStreams, userKept,
                Leave, WorkerCrashes, Gone
  <2> QED
    BY <2>1, SendingUser
<1>4. CASE UNCHANGED vars
  BY <1>4, SendingUser DEF vars
<1> QED
  BY <1>1, <1>2, <1>3, <1>4, <1>5 DEF Next

(* The types and the manager's side of every reachable state.              *)
THEOREM AlwaysSending == Spec => [](TypeOK /\ Sending)
<1>1. TypeOK /\ Sending /\ [Next]_vars => TypeOK' /\ Sending'
  BY TypeStep, SendingStep DEF Sending
<1> QED
  BY <1>1, TypeInit, SendingInit, PTL DEF Spec

(* Type correctness of the manager, its handlers, sockets and users.       *)
THEOREM TypeCorrect == Spec => []TypeOK
  BY AlwaysSending, PTL

(* Whenever nobody has the mutex, everybody has been sent the present list *)
(* (sendStreamMessage).                                                    *)
THEOREM SentSafe == Spec => []SentIsCurrent
<1>1. TypeOK /\ Sending => SentIsCurrent
  BY ManagerAssumption DEF TypeOK, Sending, Present, Current, ToBeSent, SentIsCurrent
<1> QED
  BY AlwaysSending, <1>1, PTL

-----------------------------------------------------------------------------
(* What is on its way to a user whose window has, or is about to show,     *)
(* `now', when `last' was sent last: the last list under way is that one,  *)
(* and without one nothing but a joined message keeps it from the window.  *)
IsList(m) == m.kind = "list"
NoListIn(w, from) == \A i \in from..Len(w) : ~IsList(w[i])
Reaches(w, hidden, now, last) ==
  /\ \A i \in 1..Len(w) : IsList(w[i]) /\ NoListIn(w, i + 1) => w[i].list = last
  /\ NoListIn(w, 1) /\ ~hidden => now = last

(* Lists on their way, pending and shown become older in this order.       *)
InOrder(w, waiting, seen, newest) ==
  /\ NewerEq(newest, waiting) /\ NewerEq(newest, seen)
  /\ waiting # NoList => NewerEq(waiting, seen)
  /\ \A i \in 1..Len(w) : IsList(w[i]) =>
       /\ NewerEq(newest, w[i].list)
       /\ NewerEq(w[i].list, waiting) /\ NewerEq(w[i].list, seen)
       /\ \A j \in i + 1..Len(w) : IsList(w[j]) => NewerEq(w[j].list, w[i].list)

(* NewerEq is an order.                                                    *)
LEMMA NewerOrder ==
  /\ \A l \in Lists \cup {NoList} : NewerEq(l, l)
  /\ \A l \in Lists, k \in Lists, o \in Lists \cup {NoList} :
       NewerEq(l, k) /\ NewerEq(k, o) => NewerEq(l, o)
<1>1. \A l \in Lists, v \in Videos : l.times[v] \in Nat
  BY ManagerAssumption DEF Lists
<1>2. NoList \notin Lists
  BY ManagerAssumption
<1>3. ASSUME NEW l \in Lists \cup {NoList} PROVE NewerEq(l, l)
  BY <1>1 DEF NewerEq
<1>4. ASSUME NEW l \in Lists, NEW k \in Lists, NEW o \in Lists \cup {NoList},
             NewerEq(l, k), NewerEq(k, o)
      PROVE  NewerEq(l, o)
  <2>1. CASE o = NoList
    BY <2>1 DEF NewerEq
  <2>2. CASE o \in Lists
    <3>1. o.live \subseteq l.live
      BY <1>2, <1>4, <2>2 DEF NewerEq
    <3>2. ASSUME NEW v \in Videos PROVE o.times[v] <= l.times[v]
      <4>1. o.times[v] <= k.times[v] /\ k.times[v] <= l.times[v]
        BY <1>2, <1>4, <2>2 DEF NewerEq
      <4> QED
        BY <1>1, <2>2, <4>1
    <3> QED
      BY <1>2, <3>1, <3>2 DEF NewerEq
  <2> QED
    BY <2>1, <2>2
<1> QED
  BY <1>3, <1>4

(* A message is sent.                                                      *)
LEMMA ReachesAppend ==
  ASSUME NEW w \in Seq(Message), NEW hidden, NEW now, NEW last, Reaches(w, hidden, now, last),
         NEW m \in Message
  PROVE  Reaches(Append(w, m), hidden, now, IF IsList(m) THEN m.list ELSE last)
<1> DEFINE x == Append(w, m)
<1>1. /\ Len(w) \in Nat /\ Len(x) = Len(w) + 1 /\ x[Len(w) + 1] = m
      /\ \A i \in 1..Len(w) : x[i] = w[i]
  BY AppendFacts
<1> HIDE DEF x
<1>2. ASSUME NEW i \in 1..Len(x), IsList(x[i]), NoListIn(x, i + 1)
      PROVE  x[i].list = IF IsList(m) THEN m.list ELSE last
  <2>1. CASE i = Len(w) + 1
    BY <1>1, <1>2, <2>1
  <2>2. CASE i \in 1..Len(w)
    <3>1. Len(w) + 1 \in i + 1..Len(x)
      BY <1>1, <2>2
    <3>2. ~IsList(m)
      BY <1>1, <1>2, <3>1 DEF NoListIn
    <3>3. NoListIn(w, i + 1)
      <4>1. ASSUME NEW j \in i + 1..Len(w) PROVE ~IsList(w[j])
        <5>1. j \in 1..Len(w) /\ j \in i + 1..Len(x)
          BY <1>1, <2>2
        <5> QED
          BY <1>1, <1>2, <5>1 DEF NoListIn
      <4> QED
        BY <4>1 DEF NoListIn
    <3>4. IsList(w[i])
      BY <1>1, <1>2, <2>2
    <3> QED
      BY <1>1, <2>2, <3>2, <3>3, <3>4 DEF Reaches
  <2> QED
    BY <1>1, <2>1, <2>2
<1>3. ASSUME NoListIn(x, 1), ~hidden
      PROVE  now = IF IsList(m) THEN m.list ELSE last
  <2>1. ~IsList(m)
    BY <1>1, <1>3 DEF NoListIn
  <2>2. NoListIn(w, 1)
    BY <1>1, <1>3 DEF NoListIn
  <2> QED
    BY <1>3, <2>1, <2>2 DEF Reaches
<1> QED
  BY <1>2, <1>3 DEF Reaches, x

(* Messages are read, of which the first counts.                           *)
LEMMA ReachesTake ==
  ASSUME NEW w \in Seq(Message), NEW hidden \in BOOLEAN, NEW now, NEW last,
         Reaches(w, hidden, now, last), NEW n \in 1..Len(w)
  PROVE  Reaches(SubSeq(w, n + 1, Len(w)),
                 (\E i \in 2..n : IsList(w[i])) \/ (hidden /\ ~IsList(w[1])),
                 IF IsList(w[1]) THEN w[1].list ELSE now, last)
<1> DEFINE x == SubSeq(w, n + 1, Len(w))
<1>1. /\ Len(w) \in Nat /\ Len(x) = Len(w) - n /\ n \in Nat /\ n >= 1
      /\ \A i \in 1..(Len(w) - n) : x[i] = w[n + i] /\ n + i \in 1..Len(w)
  BY SuffixFacts
<1> HIDE DEF x
<1>2. ASSUME NEW i \in 1..Len(x), IsList(x[i]), NoListIn(x, i + 1)
      PROVE  x[i].list = last
  <2>1. n + i \in 1..Len(w) /\ w[n + i] = x[i]
    BY <1>1
  <2>2. NoListIn(w, n + i + 1)
    <3>1. ASSUME NEW j \in n + i + 1..Len(w) PROVE ~IsList(w[j])
      <4>1. j - n \in i + 1..Len(x) /\ j - n \in 1..Len(x) /\ n + (j - n) = j
        BY <1>1
      <4>2. x[j - n] = w[j]
        BY <1>1, <4>1
      <4> QED
        BY <1>2, <4>1, <4>2 DEF NoListIn
    <3> QED
      BY <3>1 DEF NoListIn
  <2> QED
    BY <1>2, <2>1, <2>2 DEF Reaches
<1>3. ASSUME NoListIn(x, 1), ~(\E i \in 2..n : IsList(w[i])), ~(hidden /\ ~IsList(w[1]))
      PROVE  (IF IsList(w[1]) THEN w[1].list ELSE now) = last
  <2>1. NoListIn(w, 2)
    <3>1. ASSUME NEW j \in 2..Len(w) PROVE ~IsList(w[j])
      <4>1. CASE j <= n
        BY <1>3, <4>1, <1>1
      <4>2. CASE j > n
        <5>1. j - n \in 1..Len(x) /\ n + (j - n) = j
          BY <1>1, <4>2
        <5> QED
          BY <1>1, <1>3, <5>1 DEF NoListIn
      <4> QED
        BY <1>1, <4>1, <4>2
    <3> QED
      BY <3>1 DEF NoListIn
  <2>2. CASE IsList(w[1])
    <3>1. 1 \in 1..Len(w) /\ 1 + 1 = 2
      BY <1>1
    <3> QED
      BY <2>1, <2>2, <3>1 DEF Reaches
  <2>3. CASE ~IsList(w[1])
    <3>1. \A j \in 1..Len(w) : j = 1 \/ j \in 2..Len(w)
      BY <1>1
    <3>2. NoListIn(w, 1)
      BY <2>1, <2>3, <3>1 DEF NoListIn
    <3> QED
      BY <1>3, <2>3, <3>2 DEF Reaches
  <2> QED
    BY <2>2, <2>3
<1> QED
  BY <1>2, <1>3 DEF Reaches, x

(* The first message is read in two parts.                                 *)
LEMMA ReachesPart ==
  ASSUME NEW w \in Seq(Message), w # <<>>, NEW hidden \in BOOLEAN, NEW now, NEW last,
         Reaches(w, hidden, now, last), NEW m \in Message, ~IsList(m)
  PROVE  Reaches([w EXCEPT ![1] = m], hidden \/ IsList(w[1]), now, last)
<1> DEFINE x == [w EXCEPT ![1] = m]
<1>1. /\ Len(w) \in Nat /\ Len(x) = Len(w) /\ 1 \in 1..Len(w) /\ x[1] = m
      /\ \A i \in 1..Len(w) : i # 1 => x[i] = w[i]
  OBVIOUS
<1> HIDE DEF x
<1>2. ASSUME NEW i \in 1..Len(x), IsList(x[i]), NoListIn(x, i + 1)
      PROVE  x[i].list = last
  <2>1. i # 1 /\ i \in 1..Len(w) /\ x[i] = w[i]
    BY <1>1, <1>2
  <2>2. \A j \in i + 1..Len(w) : j \in 1..Len(w) /\ j # 1
    BY <2>1
  <2>3. NoListIn(w, i + 1)
    BY <1>1, <1>2, <2>2 DEF NoListIn
  <2> QED
    BY <1>2, <2>1, <2>3 DEF Reaches
<1>3. ASSUME NoListIn(x, 1), ~hidden, ~IsList(w[1]) PROVE now = last
  <2>1. NoListIn(w, 1)
    BY <1>1, <1>3 DEF NoListIn
  <2> QED
    BY <1>3, <2>1 DEF Reaches
<1> QED
  BY <1>2, <1>3 DEF Reaches, x

(* The same for the order of lists: a newer list is published,             *)
LEMMA OrderPublish ==
  ASSUME NEW w \in Seq(Message), NEW waiting \in Lists \cup {NoList}, NEW seen \in Lists \cup {NoList},
         NEW l \in Lists, NEW k \in Lists, InOrder(w, waiting, seen, k), NewerEq(l, k)
  PROVE  InOrder(w, waiting, seen, l)
<1>1. \A i \in 1..Len(w) : IsList(w[i]) => w[i].list \in Lists
  BY MessageFacts DEF IsList
<1> QED
  BY <1>1, NewerOrder DEF InOrder

(* it is sent,                                                             *)
LEMMA OrderAppend ==
  ASSUME NEW w \in Seq(Message), NEW waiting \in Lists \cup {NoList}, NEW seen \in Lists \cup {NoList},
         NEW l \in Lists, InOrder(w, waiting, seen, l),
         NEW m \in Message, IsList(m) => m.list = l
  PROVE  InOrder(Append(w, m), waiting, seen, l)
<1> DEFINE x == Append(w, m)
<1>1. /\ Len(w) \in Nat /\ Len(x) = Len(w) + 1 /\ x[Len(w) + 1] = m
      /\ \A i \in 1..Len(w) : x[i] = w[i]
  BY AppendFacts
<1> HIDE DEF x
<1>2. ASSUME NEW i \in 1..Len(x), IsList(x[i])
      PROVE  /\ NewerEq(l, x[i].list)
             /\ NewerEq(x[i].list, waiting) /\ NewerEq(x[i].list, seen)
             /\ \A j \in i + 1..Len(x) : IsList(x[j]) => NewerEq(x[j].list, x[i].list)
  <2>1. CASE i = Len(w) + 1
    <3>1. x[i].list = l /\ i + 1..Len(x) = {}
      BY <1>1, <1>2, <2>1
    <3> QED
      BY <3>1, NewerOrder DEF InOrder
  <2>2. CASE i \in 1..Len(w)
    <3>1. x[i] = w[i] /\ IsList(w[i])
      BY <1>1, <1>2, <2>2
    <3>2. ASSUME NEW j \in i + 1..Len(x), IsList(x[j]) PROVE NewerEq(x[j].list, x[i].list)
      <4>1. CASE j = Len(w) + 1
        BY <1>1, <2>2, <3>1, <3>2, <4>1 DEF InOrder
      <4>2. CASE j \in i + 1..Len(w)
        <5>1. x[j] = w[j]
          BY <1>1, <2>2, <4>2
        <5> QED
          BY <2>2, <3>1, <3>2, <4>2, <5>1 DEF InOrder
      <4> QED
        BY <1>1, <2>2, <4>1, <4>2
    <3> QED
      BY <2>2, <3>1, <3>2 DEF InOrder
  <2> QED
    BY <1>1, <2>1, <2>2
<1> QED
  BY <1>2 DEF InOrder, x

(* messages are read, of which the first may be a list,                    *)
LEMMA OrderTake ==
  ASSUME NEW w \in Seq(Message), NEW waiting \in Lists \cup {NoList}, NEW seen \in Lists \cup {NoList},
         NEW l \in Lists, InOrder(w, waiting, seen, l), NEW n \in 1..Len(w),
         NEW p, p = waiting \/ (IsList(w[1]) /\ p = w[1].list)
  PROVE  InOrder(SubSeq(w, n + 1, Len(w)), p, seen, l)
<1> DEFINE x == SubSeq(w, n + 1, Len(w))
<1>1. /\ Len(w) \in Nat /\ Len(x) = Len(w) - n /\ n \in Nat /\ n >= 1
      /\ \A i \in 1..(Len(w) - n) : x[i] = w[n + i] /\ n + i \in 1..Len(w)
  BY SuffixFacts
<1> HIDE DEF x
<1>2. 1 \in 1..Len(w) /\ \A i \in 1..Len(x) : n + i \in 1 + 1..Len(w)
  BY <1>1
<1>3. \A k : NewerEq(k, NoList)
  BY DEF NewerEq
<1>4. NewerEq(l, p) /\ NewerEq(l, seen) /\ (p # NoList => NewerEq(p, seen))
  BY <1>2, <1>3 DEF InOrder
<1>5. ASSUME NEW i \in 1..Len(x), IsList(x[i])
      PROVE  /\ NewerEq(l, x[i].list)
             /\ NewerEq(x[i].list, p) /\ NewerEq(x[i].list, seen)
             /\ \A j \in i + 1..Len(x) : IsList(x[j]) => NewerEq(x[j].list, x[i].list)
  <2>1. x[i] = w[n + i] /\ n + i \in 1..Len(w) /\ n + i \in 1 + 1..Len(w)
    BY <1>1, <1>2
  <2>2. IsList(w[1]) => NewerEq(x[i].list, w[1].list)
    BY <1>2, <1>5, <2>1 DEF InOrder
  <2>3. NewerEq(x[i].list, waiting) /\ NewerEq(x[i].list, seen) /\ NewerEq(l, x[i].list)
    BY <1>5, <2>1 DEF InOrder
  <2>4. ASSUME NEW j \in i + 1..Len(x), IsList(x[j]) PROVE NewerEq(x[j].list, x[i].list)
    <3>1. x[j] = w[n + j] /\ n + j \in n + i + 1..Len(w)
      BY <1>1
    <3> QED
      BY <1>5, <2>1, <2>4, <3>1 DEF InOrder
  <2> QED
    BY <1>3, <2>2, <2>3, <2>4
<1> QED
  BY <1>4, <1>5 DEF InOrder, x

(* or the first one is read in two parts.                                  *)
LEMMA OrderPart ==
  ASSUME NEW w \in Seq(Message), w # <<>>, NEW waiting, NEW seen,
         NEW l, InOrder(w, waiting, seen, l), NEW m \in Message, ~IsList(m)
  PROVE  InOrder([w EXCEPT ![1] = m], waiting, seen, l)
<1> DEFINE x == [w EXCEPT ![1] = m]
<1>1. /\ Len(w) \in Nat /\ Len(x) = Len(w) /\ 1 \in 1..Len(w) /\ x[1] = m
      /\ \A i \in 1..Len(w) : i # 1 => x[i] = w[i]
  OBVIOUS
<1> HIDE DEF x
<1>2. ASSUME NEW i \in 1..Len(x), IsList(x[i])
      PROVE  i \in 1..Len(w) /\ x[i] = w[i] /\ IsList(w[i])
  BY <1>1, <1>2
<1>3. \A i \in 1..Len(x) : \A j \in i + 1..Len(x) : j \in 1..Len(x)
  BY <1>1
<1>4. ASSUME NEW i \in 1..Len(x), IsList(x[i]), NEW j \in i + 1..Len(x), IsList(x[j])
      PROVE  NewerEq(x[j].list, x[i].list)
  <2>1. x[i] = w[i] /\ x[j] = w[j] /\ IsList(w[i]) /\ IsList(w[j])
    BY <1>2, <1>3, <1>4
  <2> QED
    BY <1>1, <2>1 DEF InOrder
<1> QED
  BY <1>1, <1>2, <1>4 DEF InOrder, x

-----------------------------------------------------------------------------
(* The list that a thread of the user has read and not stored yet, and what*)
(* the window shows once all that has been read is dropped to it.          *)
Read(u) == IF IsList(text[<<u, "gui">>]) THEN text[<<u, "gui">>].list
           ELSE IF IsList(text[<<u, "worker">>]) THEN text[<<u, "worker">>].list ELSE NoList
Stored(u) == IF pending[u] = NoList THEN shown[u] ELSE pending[u]
InWindow(u) == IF Read(u) = NoList THEN Stored(u) ELSE Read(u)

(* Where the two threads of a user are: without a second sign-in only one  *)
(* of them receives.                                                       *)
Apart(u) ==
  /\ u \in open <=> gui[u] # "off"
  /\ at[<<u, "gui">>] # "recv" => Waiting(u)
  /\ at[<<u, "worker">>] # "recv" => running[u]
  /\ ~beside[u] => ~(Waiting(u) /\ running[u])
  /\ \A t \in Threads : at[<<u, t>>] # "store" => ~IsList(text[<<u, t>>])
  /\ u \notin open => /\ toUser[u] = <<>> /\ ~merged[u] /\ ~running[u]
                      /\ pending[u] = NoList /\ shown[u] = NoList
Sorted(u) ==
  /\ u \in open => Reaches(toUser[u], merged[u], InWindow(u), sent[u])
  /\ InOrder(toUser[u], Read(u), Stored(u), message) /\ NewerEq(Stored(u), shown[u])
  /\ at[<<u, "worker">>] = "reset" => pending[u] = shown[u]
Window(u) == Apart(u) /\ (~beside[u] => Sorted(u))

(* The window of a user goes on like this.                                 *)
GoesOn(u) == Window(u)' /\ (u \in open' /\ ~beside'[u] => NewerEq(shown'[u], shown[u]))

(* What is a user's in the types.                                          *)
LEMMA UserFacts ==
  ASSUME TypeOK, NEW u \in Users
  PROVE  /\ toUser[u] \in Seq(Message) /\ merged[u] \in BOOLEAN
         /\ pending[u] \in Lists \cup {NoList} /\ shown[u] \in Lists \cup {NoList}
         /\ \A t \in Threads : text[<<u, t>>] \in Message
         /\ Read(u) \in Lists \cup {NoList} /\ Stored(u) \in Lists \cup {NoList}
         /\ message \in Lists /\ NoList \notin Lists
         /\ NewerEq(shown[u], shown[u])
<1>1. \A t \in Threads : text[<<u, t>>] \in Message
  BY DEF TypeOK
<1>2. /\ toUser[u] \in Seq(Message) /\ merged[u] \in BOOLEAN
      /\ pending[u] \in Lists \cup {NoList} /\ shown[u] \in Lists \cup {NoList}
      /\ message \in Lists /\ NoList \notin Lists
  BY ManagerAssumption DEF TypeOK
<1>3. Read(u) \in Lists \cup {NoList}
  BY <1>1, MessageFacts DEF Read, IsList, Threads
<1>4. Stored(u) \in Lists \cup {NoList}
  BY <1>2 DEF Stored
<1> QED
  BY <1>1, <1>2, <1>3, <1>4, NewerOrder

(* Nobody has a window at first.                                           *)
LEMMA WindowInit == ASSUME Init, NEW u \in Users PROVE Window(u)
<1>1. toUser[u] = <<>> /\ Len(toUser[u]) = 0
  BY DEF Init
<1>2. ~IsList(Plain("garbled"))
  BY MessageFacts DEF IsList
<1>3. \A t \in Threads : at[<<u, t>>] = "recv" /\ ~IsList(text[<<u, t>>])
  BY <1>2 DEF Init
<1>4. Read(u) = NoList /\ Stored(u) = NoList
  BY <1>3 DEF Init, Read, Stored, Threads
<1>5. Apart(u)
  BY <1>1, <1>3 DEF Init, Apart, Threads, Waiting
<1>6. Sorted(u)
  BY <1>1, <1>3, <1>4 DEF Init, Sorted, InOrder, NewerEq, Threads
<1> QED
  BY <1>5, <1>6 DEF Window

(* A step that leaves the lists on their way to a user alone.              *)
Kept(u) ==
  /\ UNCHANGED <<message, toUser[u], merged[u], pending[u], shown[u], sent[u]>>
  /\ UNCHANGED <<at[<<u, "gui">>], at[<<u, "worker">>], text[<<u, "gui">>], text[<<u, "worker">>]>>
  /\ u \in open' <=> u \in open
LEMMA SortedStays ==
  ASSUME TypeOK, NEW u \in Users, Sorted(u), Kept(u)
  PROVE  Sorted(u)' /\ NewerEq(shown'[u], shown[u])
<1>1. Read(u)' = Read(u) /\ Stored(u)' = Stored(u) /\ InWindow(u)' = InWindow(u)
  BY DEF Kept, Read, Stored, InWindow, IsList
<1> QED
  BY <1>1, UserFacts DEF Kept, Sorted

(* A step that does not concern the user at all.                           *)
LEMMA WindowStays ==
  ASSUME TypeOK, NEW u \in Users, Window(u), Kept(u), UNCHANGED <<running[u], beside[u], gui[u]>>
  PROVE  GoesOn(u)
<1>1. Apart(u)'
  BY DEF Window, Apart, Kept, Waiting, Threads, IsList
<1> QED
  BY <1>1, SortedStays DEF Window, GoesOn

(* Publishing makes a newer list.                                          *)
LEMMA WindowPublish ==
  ASSUME TypeOK, TypeOK', Sending, NEW e \in Emitters, UpdateLiveStream(e) \/ UpdateOnDemandStream(e),
         NEW u \in Users, Window(u)
  PROVE  GoesOn(u)
<1>1. /\ Publish(e) /\ live \subseteq live' /\ times' \in [Videos -> 0..MaxTime]
      /\ \A v \in Videos : times[v] <= times'[v]
  <2>1. times \in [Videos -> 0..MaxTime] /\ times' \in [Videos -> 0..MaxTime] /\ MaxTime \in Nat
    BY ManagerAssumption DEF TypeOK
  <2>2. CASE UpdateLiveStream(e)
    BY <2>1, <2>2 DEF UpdateLiveStream
  <2>3. CASE UpdateOnDemandStream(e)
    <3>1. PICK v \in VideosOf[e] : times' = [times EXCEPT ![v] = @ + 1]
      BY <2>3 DEF UpdateOnDemandStream
    <3>2. v \in Videos
      BY <3>1 DEF Videos
    <3> QED
      BY <2>1, <2>3, <3>1, <3>2 DEF UpdateOnDemandStream
  <2> QED
    BY <2>2, <2>3
<1>2. message = [live |-> live, times |-> times] /\ message' = [live |-> live', times |-> times']
      /\ message \in Lists /\ message' \in Lists
  BY <1>1 DEF Sending, Present, Publish, TypeOK
<1>3. NewerEq(message', message)
  BY <1>1, <1>2, ManagerAssumption DEF NewerEq
<1>4. UNCHANGED <<toUser, sent, open, userVars>>
  BY <1>1 DEF Publish, handlerVars
<1>5. Read(u)' = Read(u) /\ Stored(u)' = Stored(u) /\ InWindow(u)' = InWindow(u)
  BY <1>4 DEF Read, Stored, InWindow, IsList, userVars
<1>6. ASSUME ~beside[u] PROVE InOrder(toUser[u], Read(u), Stored(u), message')
  BY <1>2, <1>3, <1>6, UserFacts, OrderPublish DEF Window, Sorted
<1>7. ASSUME ~beside[u] PROVE Sorted(u)'
  BY <1>4, <1>5, <1>6, <1>7 DEF Window, Sorted, userVars
<1>8. Apart(u)'
  BY <1>4 DEF Window, Apart, Waiting, IsList, userVars
<1> QED
  BY <1>4, <1>7, <1>8, UserFacts DEF Window, GoesOn, userVars

(* A message is sent to a user, or to one who has left.                    *)
LEMMA WindowDeliver ==
  ASSUME TypeOK, NEW v \in Users, NEW m \in Message, Deliver(v, m), IsList(m) => m.list = message,
         sent' = IF IsList(m) THEN [sent EXCEPT ![v] = message] ELSE sent,
         UNCHANGED <<message, open, userVars>>,
         NEW u \in Users, Window(u)
  PROVE  GoesOn(u)
<1>1. UNCHANGED <<message, open, gui, running, at, text, pending, shown, merged, beside>>
  BY DEF userVars
<1>2. CASE u # v
  <2>1. toUser'[u] = toUser[u] /\ sent'[u] = sent[u]
    BY <1>2 DEF Deliver, TypeOK
  <2> QED
    BY <1>1, <2>1, WindowStays DEF Kept
<1>3. CASE u = v /\ u \notin open
  <2>1. toUser' = toUser
    BY <1>3 DEF Deliver
  <2>2. Apart(u)'
    BY <1>1, <2>1 DEF Window, Apart, Waiting, IsList
  <2>3. Read(u)' = Read(u) /\ Stored(u)' = Stored(u)
    BY <1>1 DEF Read, Stored, IsList
  <2> QED
    BY <1>1, <1>3, <2>1, <2>2, <2>3 DEF Window, Sorted, GoesOn
<1>4. CASE u = v /\ u \in open
  <2>1. toUser'[u] = Append(toUser[u], m) /\ sent'[u] = IF IsList(m) THEN m.list ELSE sent[u]
    BY <1>4 DEF Deliver, TypeOK
  <2>2. Read(u)' = Read(u) /\ Stored(u)' = Stored(u) /\ InWindow(u)' = InWindow(u)
    BY <1>1 DEF Read, Stored, InWindow, IsList
  <2>3. ASSUME ~beside[u] PROVE Sorted(u)'
    <3>1. Sorted(u)
      BY <2>3 DEF Window
    <3>2. Reaches(toUser'[u], merged[u], InWindow(u), sent'[u])
      BY <1>4, <2>1, <3>1, UserFacts, ReachesAppend DEF Sorted
    <3>3. InOrder(toUser'[u], Read(u), Stored(u), message)
      <4>1. /\ toUser[u] \in Seq(Message) /\ message \in Lists
            /\ Read(u) \in Lists \cup {NoList} /\ Stored(u) \in Lists \cup {NoList}
        BY UserFacts
      <4>2. InOrder(toUser[u], Read(u), Stored(u), message)
        BY <3>1 DEF Sorted
      <4>3. InOrder(Append(toUser[u], m), Read(u), Stored(u), message)
        BY <4>1, <4>2, OrderAppend
      <4> QED
        BY <2>1, <4>3
    <3> QED
      BY <1>1, <2>2, <3>1, <3>2, <3>3 DEF Sorted
  <2>4. Apart(u)'
    BY <1>1, <1>4 DEF Window, Apart, Waiting, IsList
  <2> QED
    BY <1>1, <2>3, <2>4, UserFacts DEF Window, GoesOn
<1> QED
  BY <1>2, <1>3, <1>4

(* A thread of the user reads messages, or a part of one.                  *)
LEMMA WindowReceive ==
  ASSUME TypeOK, NEW v \in Users, NEW t \in Threads, ReceiveMessage(v, t), NEW u \in Users, Window(u)
  PROVE  GoesOn(u)
<1> DEFINE w == toUser[u]
           o == Other(t)
<1>1. /\ UNCHANGED <<message, sent, open, gui, running, pending, shown, beside>>
      /\ Receiving(v, t) /\ at[<<v, t>>] = "recv" /\ Goes(v, t, "store")
      /\ \E m \in Message : Received(v, t, m)
  <2>1. ASSUME NEW n \in 1..Len(toUser[v]), NEW m \in Decrypted(toUser[v], n) PROVE m \in Message
    <3>1. toUser[v] \in Seq(Message)
      BY DEF TypeOK
    <3> QED
      BY <2>1, <3>1, MessageFacts, SuffixFacts DEF Decrypted
  <2> QED
    BY <2>1, MessageFacts DEF ReceiveMessage, Recv, RecvPart, listVars, handlerVars
<1>2. o \in Threads /\ o # t /\ {t, o} = Threads
  BY DEF Other, Threads
<1>3. CASE u # v
  <2>1. UNCHANGED <<toUser[u], merged[u]>>
    BY <1>3 DEF ReceiveMessage, Recv, RecvPart, TypeOK
  <2>2. \A x \in Threads : at'[<<u, x>>] = at[<<u, x>>] /\ text'[<<u, x>>] = text[<<u, x>>]
    BY <1>1, <1>2, <1>3 DEF Goes, Received, TypeOK
  <2> QED
    BY <1>1, <2>1, <2>2, WindowStays DEF Kept, Threads
<1>4. CASE u = v
  <2>1. at'[<<u, t>>] = "store" /\ at'[<<u, o>>] = at[<<u, o>>]
    BY <1>1, <1>2, <1>4 DEF Goes, TypeOK
  <2>2. ASSUME at[<<u, o>>] # "store" PROVE text'[<<u, o>>] = text[<<u, o>>]
    BY <1>1, <1>2, <1>4, <2>2 DEF Received, TypeOK
  <2>3. u \in open /\ (t = "gui" => Waiting(u)) /\ (t = "worker" => running[u])
    BY <1>1, <1>4 DEF Receiving, Window, Apart, Waiting, Threads
  <2>4. Apart(u)'
    <3>1. Apart(u)
      BY DEF Window
    <3>2. at'[<<u, "gui">>] # "recv" => Waiting(u)
      BY <1>2, <2>1, <2>3, <3>1 DEF Apart, Threads
    <3>3. at'[<<u, "worker">>] # "recv" => running[u]
      BY <1>2, <2>1, <2>3, <3>1 DEF Apart, Threads
    <3>4. \A x \in Threads : at'[<<u, x>>] # "store" => ~IsList(text'[<<u, x>>])
      BY <1>2, <2>1, <2>2, <3>1 DEF Apart
    <3> QED
      BY <1>1, <2>3, <3>1, <3>2, <3>3, <3>4 DEF Apart, Waiting, IsList
  <2>5. ASSUME ~beside[u] PROVE Sorted(u)'
    <3>1. Apart(u) /\ Sorted(u)
      BY <2>5 DEF Window
    <3>2. at[<<u, o>>] = "recv" /\ at[<<u, t>>] = "recv"
      BY <1>1, <1>2, <1>4, <2>3, <2>5, <3>1 DEF Apart, Threads
    <3>3. ~IsList(text[<<u, o>>]) /\ ~IsList(text[<<u, t>>]) /\ ~IsList(text'[<<u, o>>])
      BY <1>2, <2>2, <3>1, <3>2 DEF Apart
    <3>4. Read(u) = NoList /\ InWindow(u) = Stored(u) /\ Stored(u)' = Stored(u)
      BY <1>1, <1>2, <3>3 DEF Read, InWindow, Stored, Threads
    <3>5. \A m \in Message : Received(u, t, m) => text'[<<u, t>>] = m
      BY <1>2 DEF Received, TypeOK
    <3>6. Read(u)' = IF IsList(text'[<<u, t>>]) THEN text'[<<u, t>>].list ELSE NoList
      BY <1>2, <3>3 DEF Read, Threads, IsList
    <3>7. w \in Seq(Message) /\ merged[u] \in BOOLEAN
      BY UserFacts
    <3>8. ASSUME NEW x, toUser'[u] = x, Reaches(x, merged'[u], InWindow(u)', sent[u]),
                 InOrder(x, Read(u)', Stored(u), message)
          PROVE  Sorted(u)'
      <4>1. at'[<<u, "worker">>] # "reset" /\ NewerEq(Stored(u), shown[u])
        BY <1>2, <2>1, <3>1, <3>2 DEF Threads, Sorted
      <4> QED
        BY <1>1, <2>3, <3>4, <3>8, <4>1 DEF Sorted
    <3> HIDE DEF o
    <3>9. CASE RecvPart(u, t)
      <4> DEFINE m == Plain("garbled")
      <4>1. m \in Message /\ ~IsList(m)
        BY MessageFacts DEF IsList
      <4>2. /\ w # <<>> /\ toUser'[u] = [w EXCEPT ![1] = m] /\ text'[<<u, t>>] = m
            /\ merged'[u] = (merged[u] \/ IsList(w[1]))
        <5>1. /\ w # <<>> /\ toUser' = [toUser EXCEPT ![u] = [w EXCEPT ![1] = m]]
              /\ Received(u, t, m) /\ merged' = [merged EXCEPT ![u] = @ \/ Head(w).kind = "list"]
          BY <3>9 DEF RecvPart
        <5>2. text'[<<u, t>>] = m
          BY <3>5, <4>1, <5>1
        <5>3. Head(w) = w[1]
          BY <3>7, <5>1
        <5> HIDE DEF m, w
        <5>4. toUser'[u] = [w EXCEPT ![1] = m]
          BY <5>1 DEF TypeOK
        <5>5. merged'[u] = (merged[u] \/ IsList(w[1]))
          BY <5>1, <5>3 DEF IsList, TypeOK
        <5> QED
          BY <5>1, <5>2, <5>4, <5>5
      <4> HIDE DEF m, w
      <4>3. Read(u)' = NoList /\ InWindow(u)' = InWindow(u)
        BY <3>4, <3>6, <4>1, <4>2 DEF InWindow
      <4>4. Reaches([w EXCEPT ![1] = m], merged'[u], InWindow(u), sent[u])
        BY <2>3, <3>1, <3>7, <4>1, <4>2, ReachesPart DEF Sorted, w
      <4>5. InOrder([w EXCEPT ![1] = m], NoList, Stored(u), message)
        BY <3>1, <3>4, <3>7, <4>1, <4>2, OrderPart DEF Sorted, w
      <4> QED
        BY <3>8, <4>2, <4>3, <4>4, <4>5
    <3>10. ASSUME NEW n \in 1..Len(w), Recv(u, t, n) PROVE Sorted(u)'
      <4>1. w # <<>> /\ w[1] \in Message
        BY <3>7, <3>10, SuffixFacts
      <4>2. PICK m \in Decrypted(w, n) : Received(u, t, m) /\ merged'[u] = Unseen(u, n, m)
        <5>1. PICK m \in Decrypted(toUser[u], n) :
                Received(u, t, m) /\ merged' = [merged EXCEPT ![u] = Unseen(u, n, m)]
          BY <3>10 DEF Recv
        <5>2. merged'[u] = Unseen(u, n, m)
          BY <5>1 DEF TypeOK
        <5>3. Received(u, t, m) /\ merged'[u] = Unseen(u, n, m)
          BY <5>1, <5>2
        <5> QED
          BY <5>1, <5>3, Zenon
      <4>3. m \in Message /\ (IsList(m) => m = w[1])
        <5>1. m = w[1] \/ m = Plain("garbled")
          BY <4>2 DEF Decrypted
        <5>2. Plain("garbled") \in Message /\ ~IsList(Plain("garbled"))
          BY MessageFacts DEF IsList
        <5> QED
          BY <4>1, <5>1, <5>2
      <4>4. text'[<<u, t>>] = m
        BY <3>5, <4>2, <4>3
      <4>5. /\ IsList(w[1]) /\ ~IsList(m) => merged'[u]
            /\ (IsList(w[1]) => IsList(m))
                 => merged'[u] = ((\E i \in 2..n : IsList(w[i])) \/ (merged[u] /\ ~IsList(w[1])))
        <5>1. \A i \in 1..n : i = 1 \/ i \in 2..n
          BY <3>7, <3>10
        <5>2. 1 \in 1..n /\ \A i \in 2..n : i \in 1..n /\ i # 1
          BY <3>7, <3>10
        <5>3. merged'[u] \in BOOLEAN
          BY <4>2 DEF Unseen
        <5>4. IsList(w[1]) /\ ~IsList(m) => merged'[u]
          BY <4>2, <5>2 DEF Unseen, IsList
        <5>5. ASSUME IsList(w[1]) => IsList(m)
              PROVE  /\ (\E i \in 1..n : w[i].kind = "list" /\ (i = 1 => m.kind # "list"))
                           <=> \E i \in 2..n : IsList(w[i])
                     /\ m.kind # "list" <=> ~IsList(w[1])
          BY <4>3, <5>1, <5>2, <5>5 DEF IsList
        <5> QED
          BY <4>2, <5>3, <5>4, <5>5 DEF Unseen
      <4>6. toUser'[u] = SubSeq(w, n + 1, Len(w))
        BY <3>10 DEF Recv, TypeOK
      <4>7. /\ Read(u)' = IF IsList(m) THEN w[1].list ELSE NoList
            /\ InWindow(u)' = IF IsList(m) THEN w[1].list ELSE InWindow(u)
        <5>1. IsList(w[1]) => w[1].list # NoList
          BY <4>1, MessageFacts, UserFacts DEF IsList
        <5> QED
          BY <3>4, <3>6, <4>3, <4>4, <5>1 DEF InWindow
      <4>8. Reaches(SubSeq(w, n + 1, Len(w)), merged'[u], InWindow(u)', sent[u])
        <5>1. Reaches(SubSeq(w, n + 1, Len(w)),
                      (\E i \in 2..n : IsList(w[i])) \/ (merged[u] /\ ~IsList(w[1])),
                      IF IsList(w[1]) THEN w[1].list ELSE InWindow(u), sent[u])
          BY <2>3, <3>1, <3>7, ReachesTake DEF Sorted
        <5>2. CASE IsList(w[1]) => IsList(m)
          BY <4>3, <4>5, <4>7, <5>1, <5>2
        <5>3. CASE IsList(w[1]) /\ ~IsList(m)
          BY <4>5, <5>1, <5>3 DEF Reaches
        <5> QED
          BY <5>2, <5>3
      <4>9. InOrder(SubSeq(w, n + 1, Len(w)), Read(u)', Stored(u), message)
        <5>1. InOrder(w, NoList, Stored(u), message)
          BY <3>1, <3>4 DEF Sorted
        <5>2. Read(u)' = NoList \/ (IsList(w[1]) /\ Read(u)' = w[1].list)
          BY <4>3, <4>7
        <5> QED
          BY <3>7, <5>1, <5>2, UserFacts, OrderTake
      <4> QED
        BY <3>8, <4>6, <4>8, <4>9
    <3> QED
      BY <1>4, <3>9, <3>10 DEF ReceiveMessage
  <2> QED
    BY <1>1, <2>4, <2>5, UserFacts DEF Window, GoesOn
<1> QED
  BY <1>3, <1>4

(* A thread of the user stores what it has read: the list that was read    *)
(* becomes the one that waits.                                             *)
LEMMA SortedStore ==
  ASSUME TypeOK, NEW u \in Users, Window(u), ~beside[u], NEW t \in Threads, at[<<u, t>>] = "store",
         StoreStreams(u, t), at'[<<u, "worker">>] # "reset",
         UNCHANGED <<message, sent, open, toUser, shown, merged>>
  PROVE  Sorted(u)'
<1> DEFINE o == Other(t)
           m == text[<<u, t>>]
<1>1. o \in Threads /\ o # t /\ {t, o} = Threads
  BY DEF Other, Threads
<1>2. Apart(u) /\ Sorted(u)
  BY DEF Window
<1>3. at[<<u, o>>] = "recv" /\ ~IsList(text[<<u, o>>])
  BY <1>1, <1>2 DEF Apart, Threads
<1>4. m \in Message /\ (IsList(m) => m.list \in Lists) /\ ~IsList(Plain("garbled"))
  BY MessageFacts DEF TypeOK, IsList
<1>5. /\ text'[<<u, t>>] = Plain("garbled") /\ text'[<<u, o>>] = text[<<u, o>>]
      /\ pending'[u] = IF IsList(m) THEN m.list ELSE pending[u]
  BY <1>1 DEF StoreStreams, TypeOK, IsList
<1>6. Read(u) = (IF IsList(m) THEN m.list ELSE NoList) /\ Read(u)' = NoList
  BY <1>1, <1>3, <1>4, <1>5 DEF Read, Threads, IsList
<1> HIDE DEF m, o
<1>7. Stored(u)' = IF Read(u) = NoList THEN Stored(u) ELSE Read(u)
  BY <1>4, <1>5, <1>6, UserFacts DEF Stored
<1>8. InWindow(u)' = InWindow(u)
  BY <1>6, <1>7 DEF InWindow
<1>9. InOrder(toUser[u], NoList, Stored(u)', message)
  BY <1>2, <1>7 DEF Sorted, InOrder, NewerEq
<1>10. NewerEq(Stored(u)', shown[u])
  <2>1. CASE Read(u) = NoList
    BY <1>2, <1>7, <2>1 DEF Sorted
  <2>2. CASE Read(u) # NoList
    <3>1. CASE Stored(u) = NoList
      BY <1>2, <1>7, <2>2, <3>1, UserFacts DEF Sorted, NewerEq
    <3>2. CASE Stored(u) # NoList
      <4>1. NewerEq(Read(u), Stored(u)) /\ NewerEq(Stored(u), shown[u])
        BY <1>2, <2>2 DEF Sorted, InOrder
      <4> QED
        BY <1>7, <2>2, <3>2, <4>1, UserFacts, NewerOrder
    <3> QED
      BY <3>1, <3>2
  <2> QED
    BY <2>1, <2>2
<1> QED
  BY <1>2, <1>6, <1>8, <1>9, <1>10 DEF Sorted

(* Storing and dropping.                                                   *)
LEMMA WindowStore ==
  ASSUME TypeOK, NEW v \in Users,
         GuiStores(v) \/ WorkerStores(v) \/ WorkerDrops(v) \/ ResetStreams(v),
         NEW u \in Users, Window(u)
  PROVE  GoesOn(u)
<1>1. UNCHANGED <<message, sent, open, toUser, merged, beside>>
  BY DEF GuiStores, WorkerStores, WorkerDrops, ResetStreams, userKept, listVars, handlerVars
<1>2. CASE u # v
  <2>1. \A x \in Threads : at'[<<u, x>>] = at[<<u, x>>] /\ text'[<<u, x>>] = text[<<u, x>>]
    BY <1>2 DEF GuiStores, WorkerStores, WorkerDrops, ResetStreams, StoreStreams, Goes, Threads, TypeOK
  <2>2. UNCHANGED <<pending[u], shown[u], running[u], gui[u]>>
    BY <1>2 DEF GuiStores, WorkerStores, WorkerDrops, ResetStreams, StoreStreams, DropLists, TypeOK
  <2> QED
    BY <1>1, <2>1, <2>2, WindowStays DEF Kept, Threads
<1>3. Apart(u) /\ (~beside[u] => Sorted(u)) /\ ~IsList(Plain("garbled"))
  BY MessageFacts DEF Window, IsList
<1>4. CASE u = v /\ GuiStores(v)
  <2>1. /\ at[<<u, "gui">>] = "store" /\ StoreStreams(u, "gui") /\ shown' = shown
        /\ at'[<<u, "gui">>] = "recv" /\ at'[<<u, "worker">>] = at[<<u, "worker">>]
        /\ \/ gui'[u] = "ask" /\ running'[u]
           \/ gui'[u] = "idle" /\ running'[u] = running[u]
    BY <1>4 DEF GuiStores, Goes, Threads, TypeOK
  <2>2. Waiting(u) /\ u \in open
    BY <1>3, <2>1 DEF Apart, Waiting
  <2>3. /\ text'[<<u, "gui">>] = Plain("garbled")
        /\ text'[<<u, "worker">>] = text[<<u, "worker">>]
    BY <2>1 DEF StoreStreams, Threads, TypeOK
  <2>4. Apart(u)'
    BY <1>1, <1>3, <2>1, <2>2, <2>3 DEF Apart, Waiting, Threads, IsList
  <2>5. ASSUME ~beside[u] PROVE Sorted(u)'
    <3>1. at'[<<u, "worker">>] # "reset"
      BY <1>3, <2>1, <2>2, <2>5 DEF Apart
    <3> QED
      BY <1>1, <2>1, <2>5, <3>1, SortedStore DEF Threads
  <2> QED
    BY <1>1, <2>1, <2>4, <2>5, UserFacts DEF Window, GoesOn
<1>5. CASE u = v /\ WorkerStores(v)
  <2>1. /\ at[<<u, "worker">>] = "store" /\ StoreStreams(u, "worker") /\ UNCHANGED <<gui, running, shown>>
        /\ at'[<<u, "gui">>] = at[<<u, "gui">>] /\ at'[<<u, "worker">>] \in {"drop", "recv"}
    BY <1>5 DEF WorkerStores, Goes, Threads, TypeOK
  <2>2. running[u] /\ u \in open
    BY <1>3, <2>1 DEF Apart
  <2>3. /\ text'[<<u, "worker">>] = Plain("garbled")
        /\ text'[<<u, "gui">>] = text[<<u, "gui">>]
    BY <2>1 DEF StoreStreams, Threads, TypeOK
  <2>4. Apart(u)'
    BY <1>1, <1>3, <2>1, <2>2, <2>3 DEF Apart, Waiting, Threads, IsList
  <2>5. ASSUME ~beside[u] PROVE Sorted(u)'
    BY <1>1, <2>1, <2>5, SortedStore DEF Threads
  <2> QED
    BY <1>1, <2>1, <2>4, <2>5, UserFacts DEF Window, GoesOn
<1>6. CASE u = v /\ (WorkerDrops(v) \/ ResetStreams(v))
  <2>1. /\ at[<<u, "worker">>] \in {"drop", "reset"} /\ UNCHANGED <<gui, running, text>>
        /\ at'[<<u, "gui">>] = at[<<u, "gui">>]
        /\ \/ at'[<<u, "worker">>] = "recv" /\ pending'[u] = pending[u] /\ shown'[u] = shown[u]
           \/ /\ at'[<<u, "worker">>] = "reset" /\ pending[u] # NoList
              /\ pending'[u] = pending[u] /\ shown'[u] = pending[u]
           \/ /\ at[<<u, "worker">>] = "reset" /\ at'[<<u, "worker">>] = "recv"
              /\ pending'[u] = NoList /\ shown'[u] = shown[u]
    BY <1>6 DEF WorkerDrops, ResetStreams, DropLists, Goes, Threads, TypeOK
  <2>2. running[u] /\ u \in open
    BY <1>3, <2>1 DEF Apart
  <2>3. Apart(u)'
    BY <1>1, <1>3, <2>1, <2>2 DEF Apart, Waiting, Threads, IsList
  <2>4. ASSUME ~beside[u] PROVE Sorted(u)' /\ NewerEq(shown'[u], shown[u])
    <3>1. Sorted(u)
      BY <1>3, <2>4
    <3>2. Read(u)' = Read(u)
      BY <2>1 DEF Read, IsList
    <3>3. Stored(u)' = Stored(u)
      BY <2>1, <3>1 DEF Stored, Sorted
    <3>4. InWindow(u)' = InWindow(u)
      BY <3>2, <3>3 DEF InWindow
    <3>5. shown'[u] = shown[u] \/ shown'[u] = Stored(u)
      BY <2>1 DEF Stored
    <3>6. NewerEq(shown'[u], shown[u]) /\ NewerEq(Stored(u), shown'[u])
      BY <3>1, <3>5, UserFacts, NewerOrder DEF Sorted
    <3>7. at'[<<u, "worker">>] = "reset" => pending'[u] = shown'[u]
      BY <2>1
    <3> QED
      BY <1>1, <3>1, <3>2, <3>3, <3>4, <3>6, <3>7 DEF Sorted
  <2> QED
    BY <1>1, <2>3, <2>4 DEF Window, GoesOn
<1> QED
  BY <1>2, <1>4, <1>5, <1>6

(* A user's program starts or ends.                                        *)
LEMMA WindowOpens ==
  ASSUME TypeOK, Sending, NEW v \in Users, InitNetworkUser(v) \/ Gone(v), NEW u \in Users, Window(u)
  PROVE  GoesOn(u)
<1>1. CASE u # v
  <2>1. /\ UNCHANGED <<message, toUser[u], merged[u], pending[u], shown[u], sent[u]>>
        /\ UNCHANGED <<running[u], beside[u], gui[u]>>
        /\ u \in open' <=> u \in open
    BY <1>1 DEF InitNetworkUser, Gone, TypeOK, listVars, handlerVars
  <2>2. \A x \in Threads : at'[<<u, x>>] = at[<<u, x>>] /\ text'[<<u, x>>] = text[<<u, x>>]
    BY <1>1 DEF InitNetworkUser, Gone, TypeOK
  <2> QED
    BY <2>1, <2>2, WindowStays DEF Kept, Threads
<1>2. CASE u = v /\ InitNetworkUser(v)
  <2>1. /\ u \notin open /\ u \in open' /\ gui[u] = "off" /\ gui'[u] = "idle" /\ handler[u] = "none"
        /\ UNCHANGED <<message, toUser, merged, pending, shown, sent, running, beside, at, text>>
    BY <1>2 DEF InitNetworkUser, Window, Apart, TypeOK, listVars, handlerVars
  <2>2. /\ toUser[u] = <<>> /\ ~merged[u] /\ ~running[u] /\ pending[u] = NoList /\ shown[u] = NoList
        /\ Len(toUser[u]) = 0
    BY <2>1 DEF Window, Apart
  <2>3. sent[u] = NoList
    BY <2>1 DEF Sending, Addressed
  <2>4. \A t \in Threads : at[<<u, t>>] = "recv" /\ ~IsList(text[<<u, t>>])
    BY <2>1, <2>2 DEF Window, Apart, Waiting, Threads
  <2>5. Apart(u)'
    BY <2>1, <2>2, <2>4 DEF Apart, Waiting, Threads, IsList
  <2>6. Read(u)' = NoList /\ Stored(u)' = NoList /\ InWindow(u)' = NoList
    BY <2>1, <2>2, <2>4 DEF Read, Stored, InWindow, Threads, IsList
  <2>7. Reaches(toUser'[u], merged'[u], NoList, NoList) /\ InOrder(toUser'[u], NoList, NoList, message')
    BY <2>1, <2>2 DEF Reaches, InOrder, NewerEq
  <2>8. Sorted(u)'
    BY <2>1, <2>2, <2>3, <2>4, <2>6, <2>7 DEF Sorted, NewerEq, Threads
  <2> QED
    BY <2>1, <2>5, <2>8, UserFacts DEF Window, GoesOn
<1>3. CASE u = v /\ Gone(v)
  <2>1. /\ u \notin open' /\ toUser'[u] = <<>> /\ gui'[u] = "off" /\ ~running'[u] /\ ~beside'[u]
        /\ pending'[u] = NoList /\ shown'[u] = NoList /\ ~merged'[u]
        /\ \A t \in Threads : at'[<<u, t>>] = "recv" /\ text'[<<u, t>>] = Plain("garbled")
    BY <1>3 DEF Gone, TypeOK
  <2>2. Len(toUser'[u]) = 0
    BY <2>1
  <2>3. \A t \in Threads : ~IsList(text'[<<u, t>>])
    BY <2>1, MessageFacts DEF IsList
  <2>4. Apart(u)'
    BY <2>1, <2>3 DEF Apart, Waiting, IsList, Threads
  <2>5. Read(u)' = NoList /\ Stored(u)' = NoList
    BY <2>1, <2>3 DEF Read, Stored, IsList, Threads
  <2>6. InOrder(toUser'[u], NoList, NoList, message')
    BY <2>1, <2>2 DEF InOrder, NewerEq
  <2>7. Sorted(u)'
    BY <2>1, <2>5, <2>6 DEF Sorted, NewerEq, Threads
  <2> QED
    BY <2>1, <2>4, <2>7 DEF Window, GoesOn
<1> QED
  BY <1>1, <1>2, <1>3

(* The user clicks, or asks for the list.                                  *)
LEMMA WindowClick ==
  ASSUME TypeOK, NEW v \in Users, SignUp(v) \/ SignIn(v) \/ AskForList(v), NEW u \in Users, Window(u)
  PROVE  GoesOn(u)
<1>1. UNCHANGED <<message, sent, open, toUser, running, at, text, pending, shown, merged>>
  BY DEF SignUp, SignIn, Click, AskForList, Request, listVars, handlerVars
<1>2. CASE u # v
  <2>1. gui'[u] = gui[u] /\ beside'[u] = beside[u]
    BY <1>2 DEF SignUp, SignIn, Click, AskForList, TypeOK
  <2> QED
    BY <1>1, <1>2, <2>1, WindowStays DEF Kept
<1>3. CASE u = v
  <2>1. /\ gui[u] \in {"idle", "ask"} /\ gui'[u] \in {"idle", "signUp", "signIn"}
        /\ beside[u] => beside'[u]
        /\ gui'[u] = "idle" \/ (running[u] => beside'[u])
    BY <1>3 DEF SignUp, SignIn, Click, AskForList, TypeOK
  <2>2. Apart(u)'
    BY <1>1, <2>1 DEF Window, Apart, Waiting, IsList
  <2>3. ASSUME ~beside'[u] PROVE Sorted(u)' /\ NewerEq(shown'[u], shown[u])
    BY <1>1, <2>1, <2>3, SortedStays DEF Window, Kept
  <2> QED
    BY <2>2, <2>3 DEF Window, GoesOn
<1> QED
  BY <1>2, <1>3

(* Every step goes on with everybody's window.                             *)
LEMMA WindowStep ==
  ASSUME TypeOK, TypeOK', Sending, [Next]_vars, NEW u \in Users, Window(u)
  PROVE  GoesOn(u)
<1>1. ASSUME NEW e \in Emitters, UpdateLiveStream(e) \/ UpdateOnDemandStream(e)
      PROVE  GoesOn(u)
  BY <1>1, WindowPublish
<1>2. ASSUME NEW e \in Emitters, SendStreamMessage(e)
      PROVE  GoesOn(u)
  <2> DEFINE v == clients[emitter[e].at]
  <2>1. /\ UNCHANGED <<message, open, userVars>> /\ emitter[e].at <= emitter[e].last
        /\ emitter[e].pc = "sending"
        /\ \/ UNCHANGED <<toUser, sent>>
           \/ Deliver(v, ListMessage) /\ sent' = [sent EXCEPT ![v] = message]
    BY <1>2 DEF SendStreamMessage
  <2>2. v \in Users
    <3>1. emitter[e] \in [pc : {"new", "idle", "sending"}, at : Nat, last : Nat] /\ clients \in Seq(Users)
      BY DEF TypeOK
    <3>2. emitter[e].at \in 1..Len(clients)
      BY <2>1, <3>1 DEF Sending, Publishing
    <3> QED
      BY <3>1, <3>2
  <2> HIDE DEF v
  <2>3. CASE UNCHANGED <<toUser, sent>>
    BY <2>1, <2>3, WindowStays DEF userVars, Kept
  <2>4. CASE Deliver(v, ListMessage) /\ sent' = [sent EXCEPT ![v] = message]
    BY <2>1, <2>2, <2>4, MessageFacts, WindowDeliver DEF IsList
  <2> QED
    BY <2>1, <2>3, <2>4
<1>3. ASSUME NEW v \in Users, Reply(v) \/ SendList(v)
      PROVE  GoesOn(u)
  <2>1. UNCHANGED <<message, open, userVars>>
    BY <1>3 DEF Reply, SendList, listVars
  <2>2. \/ UNCHANGED <<toUser, sent>>
        \/ Deliver(v, Plain(handler[v])) /\ handler[v] \in {"ok", "err"} /\ UNCHANGED sent
        \/ Deliver(v, ListMessage) /\ sent' = [sent EXCEPT ![v] = message]
    BY <1>3 DEF Reply, SendList
  <2>3. CASE UNCHANGED <<toUser, sent>>
    BY <2>1, <2>3, WindowStays DEF userVars, Kept
  <2>4. CASE Deliver(v, Plain(handler[v])) /\ handler[v] \in {"ok", "err"} /\ UNCHANGED sent
    <3>1. Plain(handler[v]) \in Message /\ ~IsList(Plain(handler[v]))
      BY <2>4, MessageFacts DEF IsList
    <3> QED
      BY <2>1, <2>4, <3>1, WindowDeliver
  <2>5. CASE Deliver(v, ListMessage) /\ sent' = [sent EXCEPT ![v] = message]
    BY <2>1, <2>5, MessageFacts, WindowDeliver DEF IsList
  <2> QED
    BY <2>2, <2>3, <2>4, <2>5
<1>4. ASSUME NEW v \in Users, Gui(v) \/ Worker(v)
      PROVE  GoesOn(u)
  <2>1. \/ AskForList(v) \/ \E t \in Threads : ReceiveMessage(v, t)
        \/ GuiStores(v) \/ WorkerStores(v) \/ WorkerDrops(v) \/ ResetStreams(v)
    BY <1>4 DEF Gui, Worker, Threads
  <2> QED
    BY <2>1, WindowClick, WindowReceive, WindowStore
<1>5. CASE \/ AcceptFails \/ \E e \in Emitters : Published(e)
           \/ \E v \in Users : \/ AcceptClient(v) \/ ReceiveFails(v) \/ LockList(v)
                               \/ \E n \in 1..Len(toServer[v]) : Receive(v, n)
           \/ UNCHANGED vars
  <2>1. UNCHANGED <<message, sent, open, toUser, userVars>>
    BY <1>5 DEF Published, AcceptClient, AcceptFails, ReceiveFails, LockList, Receive, vars, listVars, handlerVars
  <2> QED
    BY <2>1, WindowStays DEF userVars, Kept
<1>6. ASSUME NEW v \in Users,
             SignUp(v) \/ SignIn(v) \/ InitNetworkUser(v) \/ Leave(v) \/ WorkerCrashes(v)
      PROVE  GoesOn(u)
  BY <1>6, WindowClick, WindowOpens DEF Leave, WorkerCrashes
<1> QED
  BY <1>1, <1>2, <1>3, <1>4, <1>5, <1>6 DEF Next, Handler

(* Everybody's window in every reachable state.                            *)
THEOREM AlwaysWindow == Spec => [](TypeOK /\ Sending /\ \A u \in Users : Window(u))
<1> DEFINE All == \A u \in Users : Window(u)
<1>1. Init => All
  BY WindowInit
<1>2. TypeOK /\ Sending /\ TypeOK' /\ All /\ [Next]_vars => All'
  BY WindowStep DEF GoesOn
<1> QED
  BY <1>1, <1>2, AlwaysSending, PTL DEF Spec

(* Only a joined message or a second sign-in beside the worker hides a list*)
(* from a user (receiveMessage).                                           *)
THEOREM HidesSafe == Spec => []OnlyMergingHides
<1>1. TypeOK /\ (\A u \in Users : Window(u)) => OnlyMergingHides
  <2> SUFFICES ASSUME TypeOK, NEW u \in Users, Window(u),
                      running[u], toUser[u] = <<>>, at[<<u, "worker">>] = "recv", ~merged[u],
                      ~beside[u], pending[u] = NoList
               PROVE  shown[u] = sent[u]
    BY DEF OnlyMergingHides
  <2>1. Len(toUser[u]) = 0
    OBVIOUS
  <2>2. Apart(u) /\ Sorted(u)
    BY DEF Window
  <2>3. u \in open /\ at[<<u, "gui">>] = "recv"
    BY <2>2 DEF Apart
  <2>4. Read(u) = NoList
    BY <2>2, <2>3 DEF Apart, Read, Threads
  <2> QED
    BY <2>1, <2>2, <2>3, <2>4 DEF Sorted, Reaches, NoListIn, InWindow, Stored
<1> QED
  BY <1>1, AlwaysWindow, PTL

(* The list in a window never goes back to an older one, unless there was  *)
(* a second sign-in beside the worker.                                     *)
THEOREM NeverBack == Spec => ListsNeverGoBack
<1> DEFINE All == \A u \in Users : Window(u)
           Forward == \A u \in Users : u \in open' /\ ~beside'[u] => NewerEq(shown'[u], shown[u])
<1>1. TypeOK /\ Sending /\ TypeOK' /\ All /\ [Next]_vars => Forward
  BY WindowStep DEF GoesOn
<1>2. Spec => [](TypeOK /\ Sending /\ All)
  BY AlwaysWindow
<1>3. TypeOK /\ Sending /\ All /\ TypeOK' /\ [Next]_vars => [Forward]_vars
  BY <1>1
<1> QED
  BY <1>2, <1>3, PTL DEF Spec, ListsNeverGoBack
=============================================================================
