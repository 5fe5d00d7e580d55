--------------------------- MODULE NetworkManager ---------------------------
(***************************************************************************)
(* The network manager and its users: the emitters' threads publish the    *)
(* list of streams, which is pushed to every client with access under      *)
(* mStreamsInfoMutex; one NetworkClientHandler thread per client answers   *)
(* requests; a NetworkUser is used by the window's thread, which waits for *)
(* answers, and by NetworkUserWorker::run.  Messages have no framing: what *)
(* one recv returns is one message, of which at most the first is          *)
(* decrypted to something when several have come together.  The users'     *)
(* table and the sockets are external: whether a name and a password fit,  *)
(* and whether accept works, are choices.                                  *)
(***************************************************************************)
EXTENDS Naturals, Sequences

CONSTANTS
  Users,       \* the users' programs, one connection each
  Emitters,    \* the EnterpriseEmitters, each with its own videos
  VideosOf,    \* the videos of each emitter
  MaxTime,     \* bound: how often a video is published
  Room,        \* bound: messages a socket's buffers hold
  MaxClicks,   \* bound: how often a user signs up or in
  Nobody, NoList

Videos == UNION {VideosOf[e] : e \in Emitters}
Lists == [live : SUBSET Emitters, times : [Videos -> 0..MaxTime]]

ASSUME ManagerAssumption ==
  /\ \A e, f \in Emitters : e # f => VideosOf[e] \cap VideosOf[f] = {}
  /\ MaxTime \in Nat /\ Room \in Nat \ {0} /\ MaxClicks \in Nat
  /\ Users \cap Emitters = {} /\ Nobody \notin Users \cup Emitters /\ NoList \notin Lists

VARIABLES
  live, times,   \* mLiveStreams, mOnDemandStreams with their timestamps
  message,       \* mStreamsInfoMessage
  owner,         \* who has mStreamsInfoMutex
  emitter,       \* where the thread that publishes for an emitter is
  acceptor,      \* whether the accept loop runs
  clients,       \* mClientSockets
  handler,       \* where the thread of a NetworkClientHandler is, or its sndPkg
  access,        \* mGotAccess
  sent,          \* the list a client was sent last
  open,          \* the users whose socket is open
  toServer, toUser,
  gui,           \* where the user's window is
  clicks,        \* how often the user has signed up or in
  running,       \* whether NetworkUserWorker::run runs
  at,            \* where the window's thread and the worker are in receiveMessage and run
  text,          \* what a thread's decryptedMessage is, or will be
  pending,       \* mStreams while mGotStreams is set
  shown,         \* the list in the window
  merged,        \* a list came together with another message and was not seen
  beside         \* the window has waited for an answer while the worker ran

listVars == <<live, times, message, owner, emitter>>
handlerVars == <<acceptor, clients, handler, access, sent>>
userVars == <<gui, clicks, running, at, text, pending, shown, merged, beside>>
vars == <<listVars, handlerVars, open, toServer, toUser, userVars>>

Threads == {"gui", "worker"}
Requests == {"REGISTER_USER", "LOGIN_USER", "GET_STREAMS"}
(* "garbled" is what decrypts to no message.                               *)
Message == [kind : {"ok", "err", "garbled"}, list : {NoList}] \cup [kind : {"list"}, list : Lists]
Plain(k) == [kind |-> k, list |-> NoList]
(* A slip: the message is made of the list that has changed.               *)
OnlyTheChanged ==
  [kind |-> "list", list |-> IF \E v \in Videos : times[v] > 0 THEN [message EXCEPT !.live = {}]
                             ELSE message]
ListMessage == [kind |-> "list", list |-> message]

TypeOK ==
  /\ live \subseteq Emitters /\ times \in [Videos -> 0..MaxTime]
  /\ message \in Lists
  /\ owner \in Users \cup Emitters \cup {Nobody}
  /\ emitter \in [Emitters -> [pc : {"new", "idle", "sending"}, at : Nat, last : Nat]]
  /\ acceptor \in BOOLEAN /\ clients \in Seq(Users)
  /\ handler \in [Users -> {"none", "receive", "ok", "err", "lock", "list", "dead"}]
  /\ access \in [Users -> BOOLEAN]
  /\ sent \in [Users -> Lists \cup {NoList}]
  /\ open \subseteq Users
  /\ toServer \in [Users -> Seq(Requests)] /\ toUser \in [Users -> Seq(Message)]
  /\ \A u \in Users : Len(toUser[u]) <= Room /\ Len(toServer[u]) <= Room
  /\ gui \in [Users -> {"off", "idle", "signUp", "signIn", "ask"}]
  /\ clicks \in [Users -> 0..MaxClicks] /\ running \in [Users -> BOOLEAN]
  /\ at \in [Users \X Threads -> {"recv", "store", "drop", "reset"}]
  /\ text \in [Users \X Threads -> Message]
  /\ pending \in [Users -> Lists \cup {NoList}] /\ shown \in [Users -> Lists \cup {NoList}]
  /\ merged \in [Users -> BOOLEAN] /\ beside \in [Users -> BOOLEAN]

Init ==
  /\ live = {} /\ times = [v \in Videos |-> 0]
  /\ message = [live |-> {}, times |-> times]
  /\ owner = Nobody
  /\ emitter = [e \in Emitters |-> [pc |-> "new", at |-> 0, last |-> 0]]
  /\ acceptor = TRUE /\ clients = <<>> /\ handler = [u \in Users |-> "none"]
  /\ access = [u \in Users |-> FALSE]
  /\ sent = [u \in Users |-> NoList]
  /\ open = {} /\ toServer = [u \in Users |-> <<>>] /\ toUser = [u \in Users |-> <<>>]
  /\ gui = [u \in Users |-> "off"] /\ clicks = [u \in Users |-> 0]
  /\ running = [u \in Users |-> FALSE]
  /\ at = [x \in Users \X Threads |-> "recv"]
  /\ text = [x \in Users \X Threads |-> Plain("garbled")]
  /\ pending = [u \in Users |-> NoList] /\ shown = [u \in Users |-> NoList]
  /\ merged = [u \in Users |-> FALSE] /\ beside = [u \in Users |-> FALSE]

-----------------------------------------------------------------------------
(* Publishing.                                                             *)
Unlocked == owner = Nobody

(* From the lock to the loop of sendStreamMessage, for emitter e.          *)
Publish(e) ==
  /\ Unlocked
  /\ owner' = e
  /\ message' = [live |-> live', times |-> times']
  /\ emitter' = [emitter EXCEPT ![e] = [pc |-> "sending", at |-> 1, last |-> Len(clients)]]
  /\ UNCHANGED <<handlerVars, open, toServer, toUser, userVars>>

(* updateLiveStream: the main thread creates one emitter after the other.  *)
UpdateLiveStream(e) ==
  /\ emitter[e].pc = "new" /\ \A f \in Emitters : emitter[f].pc # "sending"
  /\ live' = live \cup {e} /\ times' = times
  /\ Publish(e)

(* updateOnDemandStream, once all emitters have been started.              *)
UpdateOnDemandStream(e) ==
  /\ emitter[e].pc = "idle" /\ \A f \in Emitters : emitter[f].pc # "new"
  /\ \E v \in VideosOf[e] : times[v] < MaxTime /\ times' = [times EXCEPT ![v] = @ + 1]
  /\ live' = live
  /\ Publish(e)

(* A send: to a user who has left it may seem to succeed, or throw.        *)
CanSend(u) == u \in open => Len(toUser[u]) < Room
Deliver(u, m) == toUser' = IF u \in open THEN [toUser EXCEPT ![u] = Append(@, m)] ELSE toUser

GotAccess(u) == access[u]
(* A slip: a send that fails is tried again.                               *)
SameClient(e) == IF clients[emitter[e].at] \in open THEN emitter[e].at + 1 ELSE emitter[e].at
NextClient(e) == emitter[e].at + 1

(* One round of the loop of sendStreamMessage(bool).                       *)
SendStreamMessage(e) ==
  /\ emitter[e].pc = "sending" /\ emitter[e].at <= emitter[e].last
  /\ LET u == clients[emitter[e].at] IN
       \/ ~GotAccess(u) /\ UNCHANGED <<toUser, sent>>
       \/ /\ GotAccess(u) /\ CanSend(u)
          /\ Deliver(u, ListMessage)
          /\ sent' = [sent EXCEPT ![u] = message]
  /\ emitter' = [emitter EXCEPT ![e].at = NextClient(e)]
  /\ UNCHANGED <<live, times, message, owner, acceptor, clients, handler, access, open, toServer,
                 userVars>>

Published(e) ==
  /\ emitter[e].pc = "sending" /\ emitter[e].at > emitter[e].last
  /\ owner' = Nobody
  /\ emitter' = [emitter EXCEPT ![e] = [pc |-> "idle", at |-> 0, last |-> 0]]
  /\ UNCHANGED <<live, times, message, handlerVars, open, toServer, toUser, userVars>>

-----------------------------------------------------------------------------
(* A handler.                                                              *)

(* NetworkManager::threadEntry: the socket of a user that has connected.   *)
AcceptClient(u) ==
  /\ acceptor /\ gui[u] # "off" /\ handler[u] = "none"
  /\ clients' = Append(clients, u)
  /\ handler' = [handler EXCEPT ![u] = "receive"]
  /\ UNCHANGED <<listVars, acceptor, access, sent, open, toServer, toUser, userVars>>
(* accept throws, for instance for want of a descriptor, since no socket   *)
(* is ever closed: nobody is accepted any more.                            *)
AcceptFails ==
  /\ acceptor /\ acceptor' = FALSE
  /\ UNCHANGED <<listVars, clients, handler, access, sent, open, toServer, toUser, userVars>>

(* What threadEntry does with a request that was parsed.                   *)
SilentOnError(r, good) ==   \* a slip: no answer to a bad request
  IF r = "GET_STREAMS" THEN "lock" ELSE IF good THEN "ok" ELSE "receive"
AfterParsing(r, good) ==
  IF r = "GET_STREAMS" THEN "lock" ELSE IF good THEN "ok" ELSE "err"

LastDecides(u, good) == good   \* a slip: a bad request takes the access away
Granted(u, good) == access[u] \/ good

(* recv returns the first n requests, the first of which is parsed: a bad  *)
(* request leaves the access as it was, any other gives it.                *)
Receive(u, n) ==
  /\ handler[u] = "receive" /\ n \in 1..Len(toServer[u])
  /\ \E good \in BOOLEAN :
       /\ Head(toServer[u]) = "GET_STREAMS" => good
       /\ access' = [access EXCEPT ![u] = Granted(u, good)]
       /\ handler' = [handler EXCEPT ![u] = AfterParsing(Head(toServer[u]), good)]
  /\ toServer' = [toServer EXCEPT ![u] = SubSeq(@, n + 1, Len(@))]
  /\ UNCHANGED <<listVars, acceptor, clients, sent, open, toUser, userVars>>

(* recv fails, or returns a part of a request, which cannot be decrypted:  *)
(* the thread ends, the socket stays open.  clearJunk only sets a flag of  *)
(* the JunkCleaner, whose thread is never started.                         *)
Die(u) == handler' = [handler EXCEPT ![u] = "dead"]
ReceiveFails(u) ==
  /\ handler[u] = "receive" /\ (u \in open => toServer[u] # <<>>)
  /\ Die(u)
  /\ UNCHANGED <<listVars, acceptor, clients, access, sent, open, toServer, toUser, userVars>>

Reply(u) ==
  /\ handler[u] \in {"ok", "err"} /\ CanSend(u)
  /\ \/ Deliver(u, Plain(handler[u])) /\ handler' = [handler EXCEPT ![u] = "receive"]
     \/ u \notin open /\ Die(u) /\ UNCHANGED toUser
  /\ UNCHANGED <<listVars, acceptor, clients, access, sent, open, toServer, userVars>>

(* sendStreamMessage(sender).                                              *)
LockList(u) ==
  /\ handler[u] = "lock" /\ Unlocked
  /\ owner' = u /\ handler' = [handler EXCEPT ![u] = "list"]
  /\ UNCHANGED <<live, times, message, emitter, acceptor, clients, access, sent, open,
                 toServer, toUser, userVars>>

(* A send that throws leaves the mutex locked by the thread that ends.     *)
SendList(u) ==
  /\ handler[u] = "list" /\ CanSend(u)
  /\ \/ /\ Deliver(u, ListMessage)
        /\ sent' = [sent EXCEPT ![u] = message]
        /\ handler' = [handler EXCEPT ![u] = "receive"] /\ owner' = Nobody
     \/ u \notin open /\ Die(u) /\ UNCHANGED <<toUser, sent, owner>>
  /\ UNCHANGED <<live, times, message, emitter, acceptor, clients, access, open, toServer,
                 userVars>>

-----------------------------------------------------------------------------
(* A user.                                                                 *)
Waiting(u) == gui[u] \in {"signUp", "signIn"}

(* initNetworkUser.                                                        *)
InitNetworkUser(u) ==
  /\ gui[u] = "off" /\ handler[u] = "none"
  /\ gui' = [gui EXCEPT ![u] = "idle"] /\ open' = open \cup {u}
  /\ UNCHANGED <<listVars, handlerVars, toServer, toUser, clicks, running, at, text,
                 pending, shown, merged, beside>>

Request(u, r) ==
  /\ Len(toServer[u]) < Room
  /\ toServer' = [toServer EXCEPT ![u] = Append(@, r)]
  /\ UNCHANGED <<listVars, handlerVars, open, toUser, running, at, text, pending,
                 shown, merged>>

Click(u, r, waiting) ==
  /\ gui[u] = "idle" /\ clicks[u] < MaxClicks
  /\ Request(u, r)
  /\ gui' = [gui EXCEPT ![u] = waiting] /\ clicks' = [clicks EXCEPT ![u] = @ + 1]
  /\ beside' = [beside EXCEPT ![u] = @ \/ running[u]]
SignUp(u) == Click(u, "REGISTER_USER", "signUp")
SignIn(u) == Click(u, "LOGIN_USER", "signIn")
AskForList(u) ==
  /\ gui[u] = "ask" /\ Request(u, "GET_STREAMS")
  /\ gui' = [gui EXCEPT ![u] = "idle"] /\ UNCHANGED <<clicks, beside>>

(* NetworkUser::receiveMessage, by the window's thread in signUp and signIn *)
(* and by NetworkUserWorker::run; nothing keeps the two apart.             *)
Receiving(u, t) == IF t = "gui" THEN Waiting(u) ELSE running[u]
Goes(u, t, place) == at' = [at EXCEPT ![<<u, t>>] = place]
userKept == <<listVars, handlerVars, open, toServer, toUser, clicks, merged, beside>>

(* What n messages of w decrypt to: the first, as a zero byte ends it; but *)
(* RESP:OK is a single block, whose padding is garbled behind another      *)
(* message, so that decryption throws, unless chance pads it right.        *)
Decrypted(w, n) == {w[1]} \cup IF n > 1 /\ w[n].kind = "ok" THEN {Plain("garbled")} ELSE {}

(* recv puts n messages into mRcvPkg, over what the other thread has there.*)
(* If that one has not decrypted its own yet, it will see these, or        *)
(* nothing, since it goes by the length of its own.                        *)
Other(t) == IF t = "gui" THEN "worker" ELSE "gui"
Received(u, t, m) ==
  \E seen \in IF at[<<u, Other(t)>>] = "store" THEN {text[<<u, Other(t)>>], m, Plain("garbled")}
                 ELSE {text[<<u, Other(t)>>]} :
    text' = [text EXCEPT ![<<u, t>>] = m, ![<<u, Other(t)>>] = seen]

(* Of n messages seen as m, a list is unseen, or one before still is.      *)
Unseen(u, n, m) ==
  \/ \E i \in 1..n : toUser[u][i].kind = "list" /\ (i = 1 => m.kind # "list")
  \/ merged[u] /\ m.kind # "list"

Recv(u, t, n) ==
  /\ Receiving(u, t) /\ at[<<u, t>>] = "recv" /\ n \in 1..Len(toUser[u])
  /\ toUser' = [toUser EXCEPT ![u] = SubSeq(@, n + 1, Len(@))]
  /\ \E m \in Decrypted(toUser[u], n) :
       /\ Received(u, t, m)
       /\ merged' = [merged EXCEPT ![u] = Unseen(u, n, m)]
  /\ Goes(u, t, "store")
  /\ UNCHANGED <<listVars, handlerVars, open, toServer, gui, clicks, running, pending, shown,
                 beside>>

(* A part of a message does not decrypt, nor does what is left of it.      *)
RecvPart(u, t) ==
  /\ Receiving(u, t) /\ at[<<u, t>>] = "recv"
  /\ toUser[u] # <<>> /\ Head(toUser[u]).kind # "garbled"
  /\ toUser' = [toUser EXCEPT ![u][1] = Plain("garbled")]
  /\ Received(u, t, Plain("garbled"))
  /\ merged' = [merged EXCEPT ![u] = @ \/ Head(toUser[u]).kind = "list"]
  /\ Goes(u, t, "store")
  /\ UNCHANGED <<listVars, handlerVars, open, toServer, gui, clicks, running, pending, shown,
                 beside>>

(* A list is stored: mStreams and mUrls, then mGotStreams; the message is  *)
(* gone when the call returns.                                             *)
StoreStreams(u, t) ==
  /\ pending' = IF text[<<u, t>>].kind = "list" THEN [pending EXCEPT ![u] = text[<<u, t>>].list]
                ELSE pending
  /\ text' = [text EXCEPT ![<<u, t>>] = Plain("garbled")]

(* signUp and signIn: a list that was pushed passes for the answer, and    *)
(* start does nothing when the worker's thread runs already.               *)
GuiStores(u) ==
  /\ at[<<u, "gui">>] = "store"
  /\ StoreStreams(u, "gui")
  /\ IF text[<<u, "gui">>].kind \in {"ok", "list"} /\ gui[u] = "signIn"
     THEN gui' = [gui EXCEPT ![u] = "ask"] /\ running' = [running EXCEPT ![u] = TRUE]
     ELSE gui' = [gui EXCEPT ![u] = "idle"] /\ UNCHANGED running
  /\ Goes(u, "gui", "recv")
  /\ UNCHANGED <<userKept, shown>>

(* run: a message that is no good is skipped, behind a good one the list   *)
(* that mGotStreams tells of is dropped to the window.                     *)
WorkerStores(u) ==
  /\ at[<<u, "worker">>] = "store"
  /\ StoreStreams(u, "worker")
  /\ Goes(u, "worker", IF text[<<u, "worker">>].kind \in {"ok", "list"} THEN "drop" ELSE "recv")
  /\ UNCHANGED <<userKept, gui, running, shown>>

(* The window's list is cleared and filled anew (displayLists).            *)
KeepStreams(u) == UNCHANGED shown   \* a slip: the list is not dropped to the window
DropLists(u) == shown' = [shown EXCEPT ![u] = pending[u]]

WorkerDrops(u) ==
  /\ at[<<u, "worker">>] = "drop"
  /\ IF pending[u] = NoList
     THEN Goes(u, "worker", "recv") /\ UNCHANGED shown
     ELSE Goes(u, "worker", "reset") /\ DropLists(u)
  /\ UNCHANGED <<userKept, gui, running, text, pending>>
ResetStreams(u) ==
  /\ at[<<u, "worker">>] = "reset"
  /\ pending' = [pending EXCEPT ![u] = NoList]
  /\ Goes(u, "worker", "recv")
  /\ UNCHANGED <<userKept, gui, running, text, shown>>

(* The user's program ends: by closing the window, or in run() by an       *)
(* exception of the decryption, which nobody catches.                      *)
Gone(u) ==
  /\ open' = open \ {u} /\ toUser' = [toUser EXCEPT ![u] = <<>>]
  /\ gui' = [gui EXCEPT ![u] = "off"] /\ running' = [running EXCEPT ![u] = FALSE]
  /\ pending' = [pending EXCEPT ![u] = NoList] /\ shown' = [shown EXCEPT ![u] = NoList]
  /\ merged' = [merged EXCEPT ![u] = FALSE] /\ beside' = [beside EXCEPT ![u] = FALSE]
  /\ at' = [x \in Users \X Threads |-> IF x[1] = u THEN "recv" ELSE at[x]]
  /\ text' = [x \in Users \X Threads |-> IF x[1] = u THEN Plain("garbled") ELSE text[x]]
  /\ UNCHANGED <<listVars, handlerVars, toServer, clicks>>
Leave(u) == gui[u] = "idle" /\ Gone(u)
WorkerCrashes(u) == /\ at[<<u, "worker">>] = "store" /\ text[<<u, "worker">>].kind = "garbled"
                    /\ Gone(u)

-----------------------------------------------------------------------------
Handler(u) ==
  (\E n \in 1..Len(toServer[u]) : Receive(u, n)) \/ Reply(u) \/ LockList(u) \/ SendList(u)
ReceiveMessage(u, t) == RecvPart(u, t) \/ \E n \in 1..Len(toUser[u]) : Recv(u, t, n)
Gui(u) == AskForList(u) \/ ReceiveMessage(u, "gui") \/ GuiStores(u)
Worker(u) == ReceiveMessage(u, "worker") \/ WorkerStores(u) \/ WorkerDrops(u) \/ ResetStreams(u)

Next ==
  \/ AcceptFails
  \/ \E e \in Emitters : \/ UpdateLiveStream(e) \/ UpdateOnDemandStream(e)
                         \/ SendStreamMessage(e) \/ Published(e)
  \/ \E u \in Users : \/ AcceptClient(u) \/ Handler(u) \/ ReceiveFails(u) \/ Gui(u) \/ Worker(u)
                      \/ InitNetworkUser(u) \/ SignUp(u) \/ SignIn(u)
                      \/ Leave(u) \/ WorkerCrashes(u)

Spec == Init /\ [][Next]_vars
(* The scheduler runs every thread, the emitters' timers elapse again and  *)
(* again (timeStreamElapseLoop); who waits for the mutex, or in a send     *)
(* for room in a socket, gets it in the end if it comes again and again.   *)
FairSpec ==
  /\ Spec
  /\ \A e \in Emitters : /\ SF_vars(UpdateLiveStream(e)) /\ SF_vars(UpdateOnDemandStream(e))
                         /\ SF_vars(SendStreamMessage(e)) /\ WF_vars(Published(e))
  /\ \A u \in Users : /\ WF_vars(AcceptClient(u)) /\ WF_vars(Handler(u))
                      /\ WF_vars(Gui(u)) /\ WF_vars(Worker(u))
                      /\ SF_vars(Reply(u)) /\ SF_vars(LockList(u)) /\ SF_vars(SendList(u))

-----------------------------------------------------------------------------
(* Whenever nobody has the mutex, the last list that each connected user   *)
(* has been sent is the present one: mGotAccess, the loop over the clients *)
(* and the answers to GET_STREAMS leave nobody behind, in any order.       *)
SentIsCurrent ==
  owner = Nobody => /\ message = [live |-> live, times |-> times]
                    /\ \A u \in open : sent[u] # NoList => sent[u] = message

(* A list is kept from a user only by coming together with another message *)
(* (NetworkUser::receiveMessage), or by a second sign-in beside the worker:*)
(* a user whose worker has read everything otherwise shows the list sent   *)
(* last.                                                                   *)
OnlyMergingHides ==
  \A u \in Users : /\ running[u] /\ toUser[u] = <<>> /\ at[<<u, "worker">>] = "recv"
                    /\ ~merged[u] /\ ~beside[u] /\ pending[u] = NoList
                    => shown[u] = sent[u]

NewerEq(l, k) ==
  \/ k = NoList
  \/ l # NoList /\ k.live \subseteq l.live /\ \A v \in Videos : k.times[v] <= l.times[v]
(* The window's list never goes back to an older one, though lists come    *)
(* pushed and asked for, from several threads (sendStreamMessage), as long *)
(* as there is no second sign-in while the worker receives.                *)
ListsNeverGoBack ==
  [][\A u \in Users : u \in open' /\ ~beside'[u] => NewerEq(shown'[u], shown[u])]_vars

(* A user with access who reads nothing until the socket is full, and a    *)
(* mutex left locked by a handler whose answer failed.                     *)
Unread(u) == u \in open /\ Len(toUser[u]) = Room /\ ~Waiting(u) /\ ~running[u]
MutexLeft == owner \in Users /\ handler[owner] = "dead"
(* Publishing goes on (updateLiveStream, updateOnDemandStream), whichever  *)
(* users leave during a send, unless it is held up by one of those two.    *)
PublishingGoesOn ==
  <>[](~MutexLeft /\ \A u \in Users : ~Unread(u))
    => <>(owner = Nobody /\ \A v \in Videos : times[v] = MaxTime)

(* A user who signs up or in gets the window back (NetworkUserWorker),     *)
(* unless its worker runs already and may take the answer, the handler has *)
(* ended on a request that came in parts, or the accept loop has ended     *)
(* before it gave the user a handler.                                      *)
SigningReturns ==
  \A u \in Users :
    (Waiting(u) /\ ~running[u])
      ~> (~Waiting(u) \/ handler[u] = "dead" \/ (handler[u] = "none" /\ ~acceptor))
=============================================================================
