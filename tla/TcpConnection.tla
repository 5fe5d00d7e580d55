--------------------------- MODULE TcpConnection ---------------------------
(***************************************************************************)
(* The write path of one connection: TcpConnection::Send, HandleWrite and  *)
(* Close, the BufferWriter behind them, the EVENT_OUT flag of the Channel  *)
(* and the poller that watches it.  Send runs in any thread, Disconnect in *)
(* the main thread, every other handler in the event loop.  Module         *)
(* OnDemandServer has what follows a Close; here it is the channel that    *)
(* matters.                                                                *)
(*                                                                         *)
(* All packets have the same size.  Accepted packets are numbered modulo   *)
(* Numbers, so that a worker may stream for ever.                          *)
(***************************************************************************)
EXTENDS Naturals, Sequences

CONSTANTS
  Workers,      \* the threads that stream to this client
  Loop,         \* the event loop's thread
  Main,         \* the thread that may call TcpServer::Stop
  NoThread,
  Capacity,     \* BufferWriter::max_queue_length_ (500)
  PacketSize,   \* bytes of a packet
  Room,         \* bytes the socket's send buffer holds
  Numbers,      \* packets are numbered 0..Numbers-1
  MaxRequests,  \* bound: the requests the client sends
  Disconnects   \* whether TcpServer::Stop disconnects this client

ASSUME ConstantsAssumption ==
  /\ Capacity \in Nat \ {0} /\ PacketSize \in Nat \ {0} /\ Room \in Nat \ {0}
  /\ Numbers \in Nat /\ Numbers > Capacity + 1
  /\ MaxRequests \in Nat /\ Disconnects \in BOOLEAN
  /\ Loop \notin Workers /\ Main \notin Workers \cup {Loop}
  /\ NoThread \notin Workers \cup {Loop, Main}

Threads == Workers \cup {Loop, Main}

VARIABLES
  isClosed,   \* TcpConnection::is_closed_
  mutex,      \* owner of TcpConnection::mutex_
  buffer,     \* BufferWriter::buffer_
  events,     \* Channel::events_, as a subset of {"in", "out"}
  polled,     \* what the poller watches for this channel; {} when it is not registered
  callbacks,  \* what the HandleEvent under way has still to call
  pc,         \* where each thread is
  taken,      \* what the last ::send of a thread has taken
  closeQueued,\* Disconnect has queued a Close
  requests,   \* requests the client has sent
  free,       \* room in the socket's send buffer
  numbered,   \* number of the next packet the buffer accepts
  wire,       \* the last bytes ::send took: number of their packet, from, to
  skipped,    \* a HandleWrite gave up because HandleRead or Disconnect had the mutex
  overtaken   \* is_closed_ was set while a thread was in HandleWrite past its test of it

bufferVars == <<buffer, numbered>>
socketVars == <<free, wire, taken>>
pollVars   == <<events, polled>>
loopVars   == <<callbacks, closeQueued, requests>>
closeVars  == <<isClosed, overtaken>>
vars == <<closeVars, mutex, bufferVars, pollVars, pc, socketVars, loopVars, skipped>>

Callbacks == {"in", "out", "hup"}
(* The steps of Send and HandleWrite, and who holds the mutex during them. *)
SendPcs == {"send", "append", "appended", "write", "tryLock"}
FlushPcs == {"flushing", "advance", "update", "failed"}
LoopPcs == {"idle", "event", "read", "reading", "request", "refuse", "refused",
            "hangup", "hungup"}
MainPcs == {"stop", "disconnecting"}
HolderPcs == FlushPcs \cup {"appended", "reading", "refused", "hungup", "disconnecting"}

Packet == [number : 0..Numbers - 1, index : 0..PacketSize - 1]

TypeOK ==
  /\ isClosed \in BOOLEAN
  /\ mutex \in Threads \cup {NoThread}
  /\ buffer \in Seq(Packet) /\ Len(buffer) <= Capacity
  /\ events \in SUBSET {"in", "out"}
  /\ polled \in SUBSET {"in", "out"}
  /\ callbacks \subseteq Callbacks
  /\ pc \in [Threads -> LoopPcs \cup SendPcs \cup FlushPcs \cup MainPcs]
  /\ taken \in [Threads -> 0..PacketSize]
  /\ closeQueued \in BOOLEAN
  /\ requests \in 0..MaxRequests
  /\ free \in 0..Room
  /\ numbered \in 0..Numbers - 1
  /\ wire \in [number : 0..Numbers - 1, from : 0..PacketSize, to : 0..PacketSize]
  /\ skipped \in BOOLEAN /\ overtaken \in BOOLEAN

Init ==
  /\ isClosed = FALSE
  /\ mutex = NoThread
  /\ buffer = <<>>
  /\ events = {"in"}
  /\ polled = {"in"}
  /\ callbacks = {}
  /\ pc = [t \in Threads |-> IF t = Main /\ Disconnects THEN "stop" ELSE "idle"]
  /\ taken = [t \in Threads |-> 0]
  /\ closeQueued = FALSE
  /\ requests = 0
  /\ free = Room
  /\ numbered = 0
  /\ wire = [number |-> Numbers - 1, from |-> 0, to |-> PacketSize]
  /\ skipped = FALSE /\ overtaken = FALSE

-----------------------------------------------------------------------------
Goto(t, label) == pc' = [pc EXCEPT ![t] = label]
(* Where a thread goes on after Send or HandleWrite.                       *)
Resume(t) == IF t = Loop /\ callbacks # {} THEN "event" ELSE "idle"

Lock(t) == mutex = NoThread /\ mutex' = t
Unlock(t) == mutex = t /\ mutex' = NoThread

(* In HandleWrite, behind its test of is_closed_.                          *)
PastTest(t) == pc[t] \in {"tryLock"} \cup FlushPcs

(* TcpConnection::Close: is_closed_ and RemoveChannel.                     *)
Close(t) ==
  /\ isClosed' = TRUE
  /\ IF isClosed
     THEN UNCHANGED <<polled, overtaken>>
     ELSE /\ polled' = {}
          /\ overtaken' = \E u \in Threads \ {t} : PastTest(u)
  /\ UNCHANGED events

(* Channel's events, then UpdateChannel: a channel that the poller does    *)
(* not know is added to it.                                                *)
SetWriting(on) ==
  /\ events' = IF on THEN events \cup {"out"} ELSE events \ {"out"}
  /\ polled' = events'

-----------------------------------------------------------------------------
(* Send: the test of is_closed_, Append under the mutex, HandleWrite.      *)
StartSend(t) ==
  /\ t \in Workers /\ pc[t] = "idle"
  /\ Goto(t, "send")
  /\ UNCHANGED <<closeVars, mutex, bufferVars, pollVars, socketVars, loopVars, skipped>>

Send(t) ==
  /\ pc[t] = "send"
  /\ Goto(t, IF isClosed THEN Resume(t) ELSE "append")
  /\ UNCHANGED <<closeVars, mutex, bufferVars, pollVars, socketVars, loopVars, skipped>>

(* BufferWriter::Append refuses a packet when the queue is full.           *)
Full == Len(buffer) >= Capacity

SendAppend(t) ==
  /\ pc[t] = "append" /\ Lock(t)
  /\ IF Full
     THEN UNCHANGED bufferVars
     ELSE /\ buffer' = Append(buffer, [number |-> numbered, index |-> 0])
          /\ numbered' = (numbered + 1) % Numbers
  /\ Goto(t, "appended")
  /\ UNCHANGED <<closeVars, pollVars, socketVars, loopVars, skipped>>

Appended(t) ==
  /\ pc[t] = "appended" /\ Unlock(t)
  /\ Goto(t, "write")
  /\ UNCHANGED <<closeVars, bufferVars, pollVars, socketVars, loopVars, skipped>>

-----------------------------------------------------------------------------
(* HandleWrite: the test of is_closed_, then try_lock.                     *)
OpenOrClosed == TRUE                    \* a slip: is_closed_ is not looked at
OnlyClosed == isClosed                  \* a slip: the test is the wrong way round
StillOpen == ~isClosed

HandleWrite(t) ==
  /\ pc[t] = "write"
  /\ Goto(t, IF StillOpen THEN "tryLock" ELSE Resume(t))
  /\ UNCHANGED <<closeVars, mutex, bufferVars, pollVars, socketVars, loopVars, skipped>>

(* Those who have the mutex and neither flush nor close when they are done.*)
Elsewhere == pc[Loop] = "reading" \/ pc[Main] = "disconnecting"
Barging == TRUE                         \* a slip: no try_lock
MutexFree == mutex = NoThread

TryLock(t) ==
  /\ pc[t] = "tryLock"
  /\ IF MutexFree
     THEN mutex' = t /\ Goto(t, "flushing") /\ UNCHANGED skipped
     ELSE /\ skipped' = (skipped \/ Elsewhere)
          /\ Goto(t, Resume(t))
          /\ UNCHANGED mutex
  /\ UNCHANGED <<closeVars, bufferVars, pollVars, socketVars, loopVars>>

(* BufferWriter::Send, one ::send at a time: an empty queue or a full      *)
(* socket ends it, and so does an error.                                   *)
SocketSend(t) ==
  /\ pc[t] = "flushing"
  /\ \/ /\ buffer = <<>> \/ free = 0
        /\ Goto(t, "update")
        /\ UNCHANGED socketVars
     \/ /\ buffer # <<>>
        /\ Goto(t, "failed")
        /\ UNCHANGED socketVars
     \/ /\ buffer # <<>> /\ free > 0
        /\ LET first == Head(buffer)
               left  == PacketSize - first.index
               count == IF left < free THEN left ELSE free
           IN /\ wire' = [number |-> first.number, from |-> first.index,
                          to |-> first.index + count]
              /\ taken' = [taken EXCEPT ![t] = count]
              /\ free' = free - count
        /\ Goto(t, "advance")
  /\ UNCHANGED <<closeVars, mutex, bufferVars, pollVars, loopVars, skipped>>

(* The front packet is popped when all of it is out.                       *)
Advance(t) ==
  /\ pc[t] = "advance" /\ buffer # <<>>
  /\ LET index == Head(buffer).index + taken[t]
     IN IF index >= PacketSize
        THEN buffer' = Tail(buffer) /\ Goto(t, "flushing")
        ELSE buffer' = [buffer EXCEPT ![1].index = index] /\ Goto(t, "update")
  /\ taken' = [taken EXCEPT ![t] = 0]
  /\ UNCHANGED <<closeVars, mutex, numbered, pollVars, free, wire, loopVars, skipped>>

(* EVENT_OUT is wanted exactly when something is left.                     *)
NeverWriting == "out" \in events /\ buffer # <<>>  \* a slip: never enabled
WantWriting == buffer # <<>>

Update(t) ==
  /\ pc[t] = "update"
  /\ IF WantWriting = ("out" \in events) THEN UNCHANGED pollVars ELSE SetWriting(WantWriting)
  /\ mutex' = NoThread
  /\ skipped' = FALSE
  /\ Goto(t, Resume(t))
  /\ UNCHANGED <<closeVars, bufferVars, socketVars, loopVars>>

(* The socket is broken: Close with the mutex held.                        *)
Failed(t) ==
  /\ pc[t] = "failed"
  /\ Close(t)
  /\ mutex' = NoThread
  /\ Goto(t, Resume(t))
  /\ UNCHANGED <<bufferVars, socketVars, loopVars, skipped>>
-----------------------------------------------------------------------------
(* The event loop.  The poller reports what happened on the descriptor,    *)
(* and Channel::HandleEvent calls the read, write and close callbacks.     *)
Reported ==
  {event \in Callbacks :
     /\ polled # {}
     /\ event = "in" => "in" \in polled
     /\ event = "out" => "out" \in polled /\ free > 0}

HandleEvent ==
  /\ pc[Loop] = "idle"
  /\ \E reported \in (SUBSET Reported) \ {{}} : callbacks' = reported
  /\ Goto(Loop, "event")
  /\ UNCHANGED <<closeVars, mutex, bufferVars, pollVars, socketVars, closeQueued, requests,
                 skipped>>

Callback ==
  /\ pc[Loop] = "event"
  /\ \/ /\ "in" \in callbacks
        /\ Goto(Loop, "read") /\ callbacks' = callbacks \ {"in"}
     \/ /\ "in" \notin callbacks /\ "out" \in callbacks
        /\ Goto(Loop, "write") /\ callbacks' = callbacks \ {"out"}
     \/ /\ callbacks = {"hup"}
        /\ Goto(Loop, "hangup") /\ callbacks' = {}
  /\ UNCHANGED <<closeVars, mutex, bufferVars, pollVars, socketVars, closeQueued, requests,
                 skipped>>

(* HandleRead with the mutex held: the peer has closed, or bytes arrive.   *)
HandleRead ==
  /\ pc[Loop] = "read" /\ Lock(Loop)
  /\ Goto(Loop, "reading")
  /\ UNCHANGED <<closeVars, bufferVars, pollVars, socketVars, loopVars, skipped>>

Read ==
  /\ pc[Loop] = "reading" /\ Unlock(Loop)
  /\ \/ /\ isClosed
        /\ Goto(Loop, Resume(Loop))
        /\ UNCHANGED <<closeVars, pollVars, requests>>
     \/ /\ ~isClosed /\ Close(Loop)
        /\ Goto(Loop, Resume(Loop))
        /\ UNCHANGED requests
     \/ /\ ~isClosed /\ requests < MaxRequests
        /\ requests' = requests + 1
        /\ Goto(Loop, "request")
        /\ UNCHANGED <<closeVars, pollVars>>
  /\ UNCHANGED <<bufferVars, socketVars, callbacks, closeQueued, skipped>>

(* read_cb_: a reply, no reply, or a request that is refused.              *)
ReadCallback ==
  /\ pc[Loop] = "request"
  /\ \E next \in {"send", Resume(Loop), "refuse"} : Goto(Loop, next)
  /\ UNCHANGED <<closeVars, mutex, bufferVars, pollVars, socketVars, loopVars, skipped>>

(* Close with the mutex held, of a refused request and by HandleClose.     *)
LockToClose ==
  /\ pc[Loop] \in {"refuse", "hangup"} /\ Lock(Loop)
  /\ Goto(Loop, IF pc[Loop] = "refuse" THEN "refused" ELSE "hungup")
  /\ UNCHANGED <<closeVars, bufferVars, pollVars, socketVars, loopVars, skipped>>

HandleClose ==
  /\ pc[Loop] \in {"refused", "hungup"} /\ Unlock(Loop)
  /\ Close(Loop)
  /\ Goto(Loop, Resume(Loop))
  /\ UNCHANGED <<bufferVars, socketVars, loopVars, skipped>>

(* Disconnect, once for each client, whether it is closed already or not:  *)
(* with the mutex held it queues a Close, unless the ring of trigger       *)
(* events is full.  That Close runs in the loop without the mutex.         *)
Disconnect ==
  /\ pc[Main] = "stop" /\ Lock(Main)
  /\ Goto(Main, "disconnecting")
  /\ UNCHANGED <<closeVars, bufferVars, pollVars, socketVars, loopVars, skipped>>

Disconnected ==
  /\ pc[Main] = "disconnecting" /\ Unlock(Main)
  /\ closeQueued' \in BOOLEAN
  /\ Goto(Main, "idle")
  /\ UNCHANGED <<closeVars, bufferVars, pollVars, socketVars, callbacks, requests, skipped>>

QueuedClose ==
  /\ pc[Loop] = "idle" /\ closeQueued
  /\ Close(Loop)
  /\ closeQueued' = FALSE
  /\ UNCHANGED <<mutex, bufferVars, pc, socketVars, callbacks, requests, skipped>>

(* The client's end: it takes a byte from the socket.                      *)
Receive ==
  /\ free < Room
  /\ free' = free + 1
  /\ UNCHANGED <<closeVars, mutex, bufferVars, pollVars, pc, wire, taken, loopVars, skipped>>

-----------------------------------------------------------------------------
SendStep(t) == Send(t) \/ SendAppend(t) \/ Appended(t)
WriteStep(t) ==
  HandleWrite(t) \/ TryLock(t) \/ SocketSend(t) \/ Advance(t) \/ Update(t) \/ Failed(t)
LoopStep == Callback \/ HandleRead \/ Read \/ ReadCallback \/ LockToClose \/ HandleClose

Next ==
  \/ \E t \in Workers : StartSend(t)
  \/ \E t \in Threads : SendStep(t) \/ WriteStep(t)
  \/ HandleEvent \/ LoopStep \/ QueuedClose
  \/ Disconnect \/ Disconnected \/ Receive

(* Threads go on with what they have begun, workers keep streaming, the    *)
(* client keeps receiving and the poller reports a writable socket.        *)
Fairness ==
  /\ \A t \in Threads : WF_vars(SendStep(t) \/ WriteStep(t))
  /\ \A t \in Workers : WF_vars(StartSend(t))
  /\ WF_vars(LoopStep) /\ WF_vars(Disconnected)
  /\ WF_vars(HandleEvent /\ "out" \in callbacks')
  /\ WF_vars(Receive)

Spec == Init /\ [][Next]_vars
FairSpec == Spec /\ Fairness
-----------------------------------------------------------------------------
(* The bytes that go out are those of the accepted packets, in the order   *)
(* in which Append accepted them, none twice and none left out: an RTP     *)
(* packet never ends up in the middle of an RTSP reply                     *)
(* (TcpConnection.cpp 40-42 and 105-137, BufferWriter.cpp 104-113).        *)
Follows(new, old) ==
  IF old.to = PacketSize
  THEN new.from = 0 /\ new.number = (old.number + 1) % Numbers
  ELSE new.from = old.to /\ new.number = old.number
WireInOrder ==
  [][(\E t \in Threads : taken[t] = 0 /\ taken'[t] > 0) => Follows(wire', wire)]_vars

(* A writable socket with nothing to send is not watched, or the event     *)
(* loop would turn without rest (TcpConnection.cpp 124-131).               *)
OutOnlyWithData == mutex = NoThread /\ ~isClosed /\ "out" \in polled => buffer # <<>>

(* Data that nobody is about to flush is watched for, unless the last      *)
(* attempt to flush it ran into HandleRead, or into Disconnect, which has  *)
(* the mutex while it queues its event (TcpConnection.cpp 60-67 and 105):  *)
(* giving up is harmless when a Send, a HandleWrite or a Close has it.     *)
FlushLostOnlyToReadOrStop ==
  buffer # <<>> /\ ~isClosed /\ "out" \notin polled =>
    \/ skipped
    \/ pc[Loop] \in {"refused", "hungup"}
    \/ \E t \in Threads : pc[t] \in {"appended", "write", "tryLock"} \cup FlushPcs

(* The channel of a closed connection is on the poller, which has a bare   *)
(* pointer to it, only if the Close overtook a thread between HandleWrite's*)
(* test of is_closed_ and its end: whatever calls were to come, were waited*)
(* for or are made later do not bring it back (TcpConnection.cpp 99-135).  *)
BackOnlyIfOvertaken == isClosed /\ polled # {} => overtaken

(* While workers stream and the client receives, every packet leaves in    *)
(* the end, also one whose flush was lost.                                 *)
DataLeaves ==
  \A n \in 0..Numbers - 1 :
    (buffer # <<>> /\ Head(buffer).number = n) ~>
      (isClosed \/ buffer = <<>> \/ Head(buffer).number # n)
=============================================================================
