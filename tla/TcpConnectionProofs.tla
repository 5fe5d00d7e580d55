------------------------ MODULE TcpConnectionProofs ------------------------
(***************************************************************************)
(* Theorems about module TcpConnection, for any number of workers, any     *)
(* capacity, packet size and socket.                                       *)
(***************************************************************************)
EXTENDS TcpConnection, SequenceTheorems, TLAPS

Labels == LoopPcs \cup SendPcs \cup FlushPcs \cup MainPcs

(* All the steps at which a thread can be.                                 *)
LEMMA LabelsAre ==
  Labels = {"idle", "event", "read", "reading", "request", "refuse", "refused", "hangup",
            "hungup", "send", "append", "appended", "write", "tryLock", "flushing",
            "advance", "update", "failed", "stop", "disconnecting"}
BY DEF Labels, LoopPcs, SendPcs, FlushPcs, MainPcs

(* The number after a packet's number is a packet's number.                *)
LEMMA NextNumber ==
  ASSUME NEW n \in 0..Numbers - 1
  PROVE  (n + 1) % Numbers \in 0..Numbers - 1
BY ConstantsAssumption

(* A new connection is typed.                                              *)
LEMMA InitTyped == Init => TypeOK
<1>. SUFFICES ASSUME Init PROVE TypeOK
  OBVIOUS
<1>1. pc \in [Threads -> Labels] /\ taken \in [Threads -> 0..PacketSize]
  BY ConstantsAssumption, LabelsAre DEF Init
<1>2. wire \in [number : 0..Numbers - 1, from : 0..PacketSize, to : 0..PacketSize]
  BY ConstantsAssumption DEF Init
<1>3. buffer \in Seq(Packet) /\ Len(buffer) <= Capacity
  BY ConstantsAssumption DEF Init
<1>4. /\ mutex = NoThread /\ events \in SUBSET {"in", "out"} /\ polled \in SUBSET {"in", "out"}
      /\ requests \in 0..MaxRequests /\ free \in 0..Room /\ numbered \in 0..Numbers - 1
  BY ConstantsAssumption DEF Init
<1>5. /\ isClosed \in BOOLEAN /\ callbacks \subseteq Callbacks
      /\ closeQueued \in BOOLEAN /\ skipped \in BOOLEAN /\ overtaken \in BOOLEAN
  BY DEF Init
<1>. QED
  BY <1>1, <1>2, <1>3, <1>4, <1>5 DEF TypeOK, Labels

(* After Send and HandleWrite a thread is idle or back in HandleEvent.     *)
LEMMA ResumeLabel == ASSUME NEW t PROVE Resume(t) \in {"idle", "event"}
BY DEF Resume

(* A step that leaves the buffer and the socket alone.                     *)
LEMMA ControlTyped ==
  ASSUME TypeOK, UNCHANGED <<bufferVars, socketVars>>,
         NEW t \in Threads, NEW label \in Labels, Goto(t, label) \/ pc' = pc,
         isClosed' \in BOOLEAN, mutex' \in {mutex, t, NoThread},
         events' \in SUBSET {"in", "out"}, polled' \in SUBSET {"in", "out"},
         callbacks' \subseteq Callbacks, closeQueued' \in BOOLEAN,
         requests' \in 0..MaxRequests, skipped' \in BOOLEAN, overtaken' \in BOOLEAN
  PROVE  TypeOK'
BY DEF TypeOK, Goto, Labels, bufferVars, socketVars

(* Every step preserves the types.                                         *)
LEMMA TypeStep ==
  ASSUME TypeOK, Next
  PROVE  TypeOK'
<1>. USE LabelsAre, ResumeLabel, ConstantsAssumption DEF closeVars
<1>1. Loop \in Threads /\ Main \in Threads /\ Workers \subseteq Threads
  BY DEF Threads
<1>2. ASSUME NEW t \in Workers, StartSend(t)
      PROVE  TypeOK'
  BY <1>1, <1>2, ControlTyped DEF StartSend, TypeOK, pollVars, loopVars
<1>3. ASSUME NEW t \in Threads, Send(t) \/ Appended(t) \/ HandleWrite(t)
      PROVE  TypeOK'
  <2>1. \E label \in Labels : Goto(t, label)
    BY <1>3 DEF Send, Appended, HandleWrite
  <2>. QED
    BY <1>3, <2>1, ControlTyped DEF Send, Appended, HandleWrite, Unlock, TypeOK,
       pollVars, loopVars
<1>4. ASSUME NEW t \in Threads, SendAppend(t)
      PROVE  TypeOK'
  <2>1. CASE Full
    BY <1>4, <2>1, ControlTyped DEF SendAppend, Lock, TypeOK, pollVars, loopVars, bufferVars
  <2>2. CASE ~Full
    <3>1. [number |-> numbered, index |-> 0] \in Packet
      BY DEF TypeOK, Packet
    <3>2. buffer' \in Seq(Packet) /\ Len(buffer') <= Capacity
      <4>1. buffer' = Append(buffer, [number |-> numbered, index |-> 0])
        BY <1>4, <2>2 DEF SendAppend
      <4>2. buffer \in Seq(Packet) /\ Len(buffer) \in Nat /\ Len(buffer) < Capacity
        BY <2>2 DEF Full, TypeOK
      <4>3. Len(buffer') = Len(buffer) + 1 /\ buffer' \in Seq(Packet)
        BY <3>1, <4>1, <4>2
      <4>. QED
        BY <4>2, <4>3
    <3>3. numbered' \in 0..Numbers - 1
      BY <1>4, <2>2, NextNumber DEF SendAppend, TypeOK
    <3>4. pc' \in [Threads -> Labels] /\ mutex' \in Threads
      BY <1>4 DEF SendAppend, Goto, Lock, TypeOK, Labels
    <3>. QED
      BY <1>4, <3>2, <3>3, <3>4 DEF SendAppend, TypeOK, Labels, pollVars, socketVars, loopVars
  <2>. QED
    BY <2>1, <2>2
<1>5. ASSUME NEW t \in Threads, TryLock(t)
      PROVE  TypeOK'
  <2>1. \E label \in Labels : Goto(t, label)
    BY <1>5 DEF TryLock
  <2>. QED
    BY <1>5, <2>1, ControlTyped DEF TryLock, Elsewhere, TypeOK, pollVars, loopVars, socketVars
<1>6. ASSUME NEW t \in Threads, SocketSend(t)
      PROVE  TypeOK'
  <2>1. \E label \in Labels : Goto(t, label)
    BY <1>6 DEF SocketSend
  <2>2. CASE UNCHANGED socketVars
    BY <1>6, <2>1, <2>2, ControlTyped DEF SocketSend, TypeOK, pollVars, loopVars
  <2>3. CASE /\ buffer # <<>> /\ free > 0
             /\ LET first == Head(buffer)
                    left  == PacketSize - first.index
                    count == IF left < free THEN left ELSE free
                IN /\ wire' = [number |-> first.number, from |-> first.index,
                               to |-> first.index + count]
                   /\ taken' = [taken EXCEPT ![t] = count]
                   /\ free' = free - count
    <3>. DEFINE first == Head(buffer)
                left  == PacketSize - first.index
                count == IF left < free THEN left ELSE free
    <3>1. first \in Packet
      BY <2>3 DEF TypeOK
    <3>2. /\ first.number \in 0..Numbers - 1 /\ first.index \in 0..PacketSize - 1
          /\ free \in 0..Room
      BY <3>1 DEF Packet, TypeOK
    <3>3. /\ count \in 0..PacketSize /\ first.index + count \in 0..PacketSize
          /\ free - count \in 0..Room
      <4>1. left \in 1..PacketSize
        BY <3>2
      <4>2. /\ count \in Nat /\ count <= left /\ count <= free
        BY <2>3, <3>2, <4>1
      <4>. HIDE DEF count
      <4>. QED
        BY <3>2, <4>1, <4>2
    <3>4. /\ wire' \in [number : 0..Numbers - 1, from : 0..PacketSize, to : 0..PacketSize]
          /\ taken' \in [Threads -> 0..PacketSize]
          /\ free' \in 0..Room
      BY <2>3, <3>2, <3>3, SMTT(30) DEF TypeOK
    <3>5. pc' \in [Threads -> Labels]
      BY <2>1 DEF Goto, TypeOK, Labels
    <3>. QED
      BY <1>6, <3>4, <3>5 DEF SocketSend, TypeOK, Labels, bufferVars, pollVars, loopVars
  <2>. QED
    BY <1>6, <2>2, <2>3 DEF SocketSend
<1>7. ASSUME NEW t \in Threads, Advance(t)
      PROVE  TypeOK'
  <2>. DEFINE index == Head(buffer).index + taken[t]
  <2>1. /\ buffer \in Seq(Packet) /\ buffer # <<>> /\ Len(buffer) <= Capacity
        /\ Head(buffer) = buffer[1] /\ buffer[1] \in Packet /\ index \in Nat
    <3>1. buffer \in Seq(Packet) /\ buffer # <<>> /\ Len(buffer) <= Capacity
      BY <1>7 DEF Advance, TypeOK
    <3>2. Head(buffer) = buffer[1] /\ buffer[1] \in Packet
      BY <3>1
    <3>3. buffer[1].index \in Nat /\ taken[t] \in Nat
      BY <3>2 DEF Packet, TypeOK
    <3>. QED
      BY <3>1, <3>2, <3>3
  <2>2. buffer' \in Seq(Packet) /\ Len(buffer') <= Capacity
    <3>1. CASE index >= PacketSize
      <4>1. buffer' = Tail(buffer)
        BY <1>7, <3>1 DEF Advance
      <4>2. /\ Tail(buffer) \in Seq(Packet) /\ Len(Tail(buffer)) = Len(buffer) - 1
            /\ Len(buffer) \in Nat
        BY <2>1
      <4>. QED
        BY <2>1, <4>1, <4>2
    <3>2. CASE ~(index >= PacketSize)
      <4>1. buffer' = [buffer EXCEPT ![1].index = index] /\ index \in 0..PacketSize - 1
        BY <1>7, <2>1, <3>2 DEF Advance
      <4>. HIDE DEF index
      <4>2. [buffer[1] EXCEPT !.index = index] \in Packet
        BY <2>1, <4>1 DEF Packet
      <4>. QED
        BY <2>1, <4>1, <4>2
    <3>. QED
      BY <3>1, <3>2
  <2>3. pc' \in [Threads -> Labels]
    <3>1. Goto(t, "flushing") \/ Goto(t, "update")
      BY <1>7 DEF Advance
    <3>. QED
      BY <3>1 DEF Goto, TypeOK, Labels
  <2>4. taken' \in [Threads -> 0..PacketSize]
    BY <1>7 DEF Advance, TypeOK
  <2>. QED
    BY <1>7, <2>2, <2>3, <2>4 DEF Advance, TypeOK, Labels, pollVars, loopVars
<1>8. ASSUME NEW t \in Threads, Update(t) \/ Failed(t)
      PROVE  TypeOK'
  <2>1. \E label \in Labels : Goto(t, label)
    BY <1>8 DEF Update, Failed
  <2>. QED
    BY <1>8, <2>1, ControlTyped DEF Update, Failed, Close, SetWriting, WantWriting, TypeOK,
       pollVars, loopVars
<1>9. CASE \/ HandleEvent \/ Callback \/ HandleRead \/ Read \/ ReadCallback
           \/ LockToClose \/ HandleClose
  <2>1. \E label \in Labels : Goto(Loop, label)
    BY <1>9 DEF HandleEvent, Callback, HandleRead, Read, ReadCallback, LockToClose, HandleClose
  <2>2. /\ isClosed' \in BOOLEAN /\ overtaken' \in BOOLEAN
        /\ mutex' \in {mutex, Loop, NoThread}
        /\ events' \in SUBSET {"in", "out"} /\ polled' \in SUBSET {"in", "out"}
    BY <1>9 DEF HandleEvent, Callback, HandleRead, Read, ReadCallback, LockToClose, HandleClose,
       Close, Lock, Unlock, TypeOK, pollVars
  <2>3. /\ callbacks' \subseteq Callbacks /\ closeQueued' \in BOOLEAN
        /\ requests' \in 0..MaxRequests /\ skipped' \in BOOLEAN
    BY <1>9 DEF HandleEvent, Callback, HandleRead, Read, ReadCallback, LockToClose, HandleClose,
       Reported, TypeOK, loopVars
  <2>4. UNCHANGED <<bufferVars, socketVars>>
    BY <1>9 DEF HandleEvent, Callback, HandleRead, Read, ReadCallback, LockToClose, HandleClose
  <2>. QED
    BY <1>1, <2>1, <2>2, <2>3, <2>4, ControlTyped
<1>10. CASE Disconnect \/ Disconnected \/ QueuedClose
  BY <1>1, <1>10, ControlTyped DEF Disconnect, Disconnected, QueuedClose, Close, Lock, Unlock,
     TypeOK, pollVars, loopVars
<1>11. CASE Receive
  BY <1>11 DEF Receive, TypeOK, bufferVars, pollVars, loopVars
<1>. QED
  BY <1>2, <1>3, <1>4, <1>5, <1>6, <1>7, <1>8, <1>9, <1>10, <1>11
     DEF Next, SendStep, WriteStep, LoopStep

(* Theorem: the types of TypeOK, among them that the queue never exceeds   *)
(* its capacity and that no packet's index passes its end.                 *)
THEOREM TypeCorrect == Spec => []TypeOK
<1>1. TypeOK /\ UNCHANGED vars => TypeOK'
  BY DEF vars, closeVars, bufferVars, pollVars, socketVars, loopVars, TypeOK
<1>. QED
  BY <1>1, InitTyped, TypeStep, PTL DEF Spec
-----------------------------------------------------------------------------
(* The mutex: exactly the thread inside one of its sections owns it.       *)
MutexIsHeld == \A t \in Threads : pc[t] \in HolderPcs <=> mutex = t

(* The steps at which a thread has the mutex.                              *)
LEMMA HolderPcsAre ==
  HolderPcs = {"flushing", "advance", "update", "failed", "appended", "reading", "refused",
               "hungup", "disconnecting"}
BY DEF HolderPcs, FlushPcs

(* A thread keeps the mutex, takes it or gives it back as its next step    *)
(* says.                                                                   *)
LEMMA GotoMutex ==
  ASSUME TypeOK, MutexIsHeld, NEW t \in Threads, NEW label, Goto(t, label),
         \/ mutex' = mutex /\ (label \in HolderPcs <=> pc[t] \in HolderPcs)
         \/ mutex = NoThread /\ mutex' = t /\ label \in HolderPcs
         \/ pc[t] \in HolderPcs /\ mutex' = NoThread /\ label \notin HolderPcs
  PROVE  MutexIsHeld'
<1>1. NoThread \notin Threads
  BY ConstantsAssumption DEF Threads
<1>2. pc'[t] = label /\ \A u \in Threads : u # t => pc'[u] = pc[u]
  BY DEF Goto, TypeOK
<1>. QED
  BY <1>1, <1>2 DEF MutexIsHeld

(* Every step keeps the mutex with the thread inside one of its sections.  *)
LEMMA MutexStep ==
  ASSUME TypeOK, MutexIsHeld, [Next]_vars
  PROVE  MutexIsHeld'
<1>. USE HolderPcsAre, ResumeLabel
<1>1. ASSUME NEW t \in Threads,
             \/ t \in Workers /\ StartSend(t)
             \/ SendStep(t) \/ WriteStep(t)
      PROVE  MutexIsHeld'
  <2>1. \E label : /\ Goto(t, label)
                   /\ \/ mutex' = mutex /\ (label \in HolderPcs <=> pc[t] \in HolderPcs)
                      \/ mutex = NoThread /\ mutex' = t /\ label \in HolderPcs
                      \/ pc[t] \in HolderPcs /\ mutex' = NoThread /\ label \notin HolderPcs
    BY <1>1 DEF StartSend, SendStep, WriteStep, Send, SendAppend, Appended, HandleWrite,
       TryLock,
       MutexFree, SocketSend, Advance, Update, Failed, Lock, Unlock
  <2>. QED
    BY <2>1, GotoMutex
<1>2. CASE HandleEvent \/ LoopStep
  <2>1. \E label : /\ Goto(Loop, label)
                   /\ \/ mutex' = mutex /\ (label \in HolderPcs <=> pc[Loop] \in HolderPcs)
                      \/ mutex = NoThread /\ mutex' = Loop /\ label \in HolderPcs
                      \/ pc[Loop] \in HolderPcs /\ mutex' = NoThread /\ label \notin HolderPcs
    BY <1>2 DEF HandleEvent, LoopStep, Callback, HandleRead, Read, ReadCallback, LockToClose,
       HandleClose, Lock, Unlock
  <2>. QED
    BY <2>1, GotoMutex DEF Threads
<1>4. CASE Disconnect \/ Disconnected
  <2>1. \E label : /\ Goto(Main, label)
                   /\ \/ mutex = NoThread /\ mutex' = Main /\ label \in HolderPcs
                      \/ pc[Main] \in HolderPcs /\ mutex' = NoThread /\ label \notin HolderPcs
    BY <1>4 DEF Disconnect, Disconnected, Lock, Unlock
  <2>. QED
    BY <2>1, GotoMutex DEF Threads
<1>3. CASE QueuedClose \/ Receive \/ UNCHANGED vars
  BY <1>3 DEF QueuedClose, Receive, vars, MutexIsHeld
<1>. QED
  BY <1>1, <1>2, <1>3, <1>4 DEF Next, Threads

(* Types and mutual exclusion hold for good.                               *)
LEMMA AlwaysHeld == Spec => [](TypeOK /\ MutexIsHeld)
<1>1. Init => MutexIsHeld
  BY HolderPcsAre, ConstantsAssumption DEF Init, MutexIsHeld, Threads
<1>2. MutexIsHeld /\ TypeOK /\ [Next]_vars => MutexIsHeld'
  BY MutexStep
<1>. QED
  BY <1>1, <1>2, TypeCorrect, PTL DEF Spec

-----------------------------------------------------------------------------
(* What the poller watches is what the channel asks for, until Close; what *)
(* it asks for agrees with the queue whenever nobody is flushing.          *)
Flushing(t) == pc[t] \in FlushPcs
PolledAsAsked == ~isClosed => polled = events
OutMeansData ==
  ~isClosed /\ "out" \in polled => buffer # <<>> \/ \E t \in Threads : Flushing(t)

Watched ==
  /\ PolledAsAsked
  /\ OutMeansData
  /\ FlushLostOnlyToReadOrStop

(* A new connection is watched for reading, which is all it asks for.      *)
LEMMA InitWatched == Init => Watched
BY DEF Init, Watched, PolledAsAsked, OutMeansData, FlushLostOnlyToReadOrStop

(* A step of one thread that leaves queue and poller alone, and neither    *)
(* begins nor gives up a flush.                                            *)
LEMMA BystanderWatched ==
  ASSUME TypeOK, Watched, NEW t \in Threads, NEW label, Goto(t, label),
         UNCHANGED <<isClosed, buffer, events, polled>>,
         skipped => skipped',
         Flushing(t) => label \in FlushPcs,
         pc[t] \in {"appended", "write", "tryLock"} /\ buffer # <<>> /\ ~isClosed =>
           label \in {"appended", "write", "tryLock"} \cup FlushPcs,
         t = Loop => pc[Loop] \notin {"refused", "hungup"}
  PROVE  Watched'
<1>. USE DEF Watched
<1>1. pc'[t] = label /\ \A u \in Threads : u # t => pc'[u] = pc[u]
  BY DEF Goto, TypeOK
<1>2. PolledAsAsked' /\ OutMeansData'
  BY <1>1 DEF PolledAsAsked, OutMeansData, Flushing
<1>3. FlushLostOnlyToReadOrStop'
  BY <1>1 DEF FlushLostOnlyToReadOrStop, Flushing, Threads
<1>. QED
  BY <1>2, <1>3

(* Workers run only Send and HandleWrite, the main thread only Disconnect. *)
OwnCode ==
  /\ \A w \in Workers : pc[w] \in {"idle"} \cup SendPcs \cup FlushPcs
  /\ pc[Main] \in {"idle"} \cup MainPcs
  /\ pc[Loop] \notin MainPcs

(* Each thread keeps to its own code.                                      *)
LEMMA OwnCodeStep ==
  ASSUME TypeOK, OwnCode, [Next]_vars
  PROVE  OwnCode'
<1>. USE DEF SendPcs, FlushPcs, MainPcs
<1>1. ASSUME NEW t \in Workers, NEW label \in {"idle"} \cup SendPcs \cup FlushPcs,
             Goto(t, label)
      PROVE  OwnCode'
  BY <1>1, ConstantsAssumption DEF Goto, OwnCode, TypeOK, Threads
<1>2. ASSUME NEW label, label \notin MainPcs, Goto(Loop, label)
      PROVE  OwnCode'
  BY <1>2, ConstantsAssumption DEF Goto, OwnCode, TypeOK, Threads
<1>3. ASSUME NEW t \in Threads,
             \/ t \in Workers /\ StartSend(t)
             \/ SendStep(t) \/ WriteStep(t)
      PROVE  OwnCode'
  <2>1. t # Main
    BY <1>3, ConstantsAssumption
       DEF OwnCode, StartSend, SendStep, WriteStep, Send, SendAppend, Appended, HandleWrite,
           TryLock, SocketSend, Advance, Update, Failed
  <2>2. t = Loop \/ Resume(t) = "idle"
    BY DEF Resume
  <2>3. \E label : /\ Goto(t, label)
                   /\ label \in {"idle"} \cup SendPcs \cup FlushPcs \/ (t = Loop /\ label = "event")
    BY <1>3, <2>2
       DEF Resume, StartSend, SendStep, WriteStep, Send, SendAppend, Appended, HandleWrite,
           TryLock, SocketSend, Advance, Update, Failed
  <2>. QED
    BY <1>1, <1>2, <2>1, <2>3 DEF Threads
<1>4. CASE HandleEvent \/ LoopStep
  <2>1. \E label : label \notin MainPcs /\ Goto(Loop, label)
    BY <1>4 DEF Resume, HandleEvent, LoopStep, Callback, HandleRead, Read, ReadCallback, LockToClose,
       HandleClose
  <2>. QED
    BY <1>2, <2>1
<1>5. CASE Disconnect \/ Disconnected
  BY <1>5, ConstantsAssumption DEF Disconnect, Disconnected, Goto, OwnCode, TypeOK, Threads
<1>6. CASE QueuedClose \/ Receive \/ UNCHANGED vars
  BY <1>6 DEF QueuedClose, Receive, vars, OwnCode
<1>. QED
  BY <1>3, <1>4, <1>5, <1>6 DEF Next, Threads

(* Every step keeps Watched.                                               *)
LEMMA WatchedStep ==
  ASSUME TypeOK, MutexIsHeld, OwnCode, Watched, [Next]_vars
  PROVE  Watched'
<1>. USE HolderPcsAre, ResumeLabel
<1>. USE DEF closeVars, bufferVars, pollVars, socketVars, loopVars
<1>1. ASSUME isClosed'
      PROVE  Watched'
  BY <1>1 DEF Watched, PolledAsAsked, OutMeansData, FlushLostOnlyToReadOrStop
<1>2. ASSUME UNCHANGED <<isClosed, buffer, events, polled, pc, skipped>>
      PROVE  Watched'
  BY <1>2 DEF Watched, PolledAsAsked, OutMeansData, FlushLostOnlyToReadOrStop, Flushing
<1>4. ASSUME NEW t \in Threads,
             \/ t \in Workers /\ StartSend(t)
             \/ Send(t) \/ Appended(t) \/ HandleWrite(t) \/ SocketSend(t)
             \/ SendAppend(t) /\ Full
             \/ TryLock(t) /\ MutexFree
      PROVE  Watched'
  <2>1. /\ UNCHANGED <<isClosed, buffer, events, polled, skipped>>
        /\ \E label : /\ Goto(t, label)
                      /\ Flushing(t) => label \in FlushPcs
                      /\ pc[t] \in {"appended", "write", "tryLock"} /\ ~isClosed =>
                           label \in {"appended", "write", "tryLock"} \cup FlushPcs
                      /\ pc[t] \notin {"refused", "hungup"}
    BY <1>4 DEF StartSend, Send, Appended, HandleWrite, StillOpen, SocketSend,
       SendAppend, TryLock,
       Flushing, FlushPcs
  <2>. QED
    BY <2>1, BystanderWatched
<1>5. ASSUME NEW t \in Threads, SendAppend(t), ~Full
      PROVE  Watched'
  <2>1. /\ buffer' # <<>> /\ pc'[t] = "appended"
        /\ UNCHANGED <<isClosed, events, polled>>
    BY <1>5 DEF SendAppend, Goto, TypeOK
  <2>. QED
    BY <2>1 DEF Watched, PolledAsAsked, OutMeansData, FlushLostOnlyToReadOrStop
<1>6. ASSUME NEW t \in Threads, TryLock(t), ~MutexFree
      PROVE  Watched'
  <2>1. /\ pc[t] = "tryLock" /\ pc'[t] \in {"idle", "event"}
        /\ \A u \in Threads : u # t => pc'[u] = pc[u]
        /\ UNCHANGED <<isClosed, buffer, events, polled>>
        /\ skipped' = (skipped \/ Elsewhere)
    BY <1>6 DEF TryLock, Goto, TypeOK
  <2>. PICK u \in Threads : mutex = u
    BY <1>6 DEF MutexFree, TypeOK
  <2>2. u # t /\ pc'[u] = pc[u] /\ pc[u] \in HolderPcs
    BY <2>1 DEF MutexIsHeld
  <2>3. Elsewhere \/ pc[u] \in FlushPcs \cup {"appended"} \/ pc[Loop] \in {"refused", "hungup"}
    <3>1. CASE u = Loop
      BY <2>2, <3>1 DEF Elsewhere, FlushPcs, OwnCode, MainPcs
    <3>2. CASE u = Main
      BY <2>2, <3>2 DEF Elsewhere, OwnCode, MainPcs
    <3>3. CASE u \in Workers
      BY <2>2, <3>3 DEF OwnCode, SendPcs, FlushPcs
    <3>. QED
      BY <3>1, <3>2, <3>3 DEF Threads
  <2>4. PolledAsAsked'
    BY <2>1 DEF Watched, PolledAsAsked
  <2>5. OutMeansData'
    BY <2>1 DEF Watched, OutMeansData, Flushing, FlushPcs
  <2>6. FlushLostOnlyToReadOrStop'
    <3>1. pc[Loop] \in {"refused", "hungup"} => pc'[Loop] = pc[Loop]
      BY <2>1 DEF Threads
    <3>. QED
      BY <2>1, <2>2, <2>3, <3>1 DEF FlushLostOnlyToReadOrStop, FlushPcs
  <2>. QED
    BY <2>4, <2>5, <2>6 DEF Watched
<1>7. ASSUME NEW t \in Threads, Advance(t)
      PROVE  Watched'
  <2>1. pc'[t] \in FlushPcs /\ UNCHANGED <<isClosed, events, polled>>
    BY <1>7 DEF Advance, Goto, TypeOK, FlushPcs
  <2>. QED
    BY <2>1 DEF Watched, PolledAsAsked, OutMeansData, FlushLostOnlyToReadOrStop, Flushing
<1>8. ASSUME NEW t \in Threads, Update(t)
      PROVE  Watched'
  <2>1. UNCHANGED <<isClosed, buffer>>
    BY <1>8 DEF Update
  <2>2. ~isClosed => polled' = events' /\ ("out" \in polled' <=> buffer # <<>>)
    BY <1>8 DEF Update, SetWriting, WantWriting, Watched, PolledAsAsked
  <2>. QED
    BY <2>1, <2>2 DEF Watched, PolledAsAsked, OutMeansData, FlushLostOnlyToReadOrStop
<1>9. ASSUME NEW t \in Threads, Failed(t)
      PROVE  Watched'
  BY <1>1, <1>9 DEF Failed, Close
<1>10. CASE HandleEvent \/ Callback \/ HandleRead \/ ReadCallback \/ LockToClose
            \/ (Read /\ ~isClosed')
  <2>1. /\ UNCHANGED <<isClosed, buffer, events, polled, skipped>>
        /\ pc[Loop] \in LoopPcs \ {"refused", "hungup"}
        /\ \E label : Goto(Loop, label)
    BY <1>10 DEF HandleEvent, Callback, HandleRead, ReadCallback, LockToClose, Read,
       Close, LoopPcs
  <2>. QED
    BY <2>1, BystanderWatched DEF Threads, Flushing, LoopPcs, FlushPcs
<1>11. CASE HandleClose \/ QueuedClose
  BY <1>1, <1>11 DEF HandleClose, QueuedClose, Close
<1>12. CASE Receive \/ UNCHANGED vars
  BY <1>2, <1>12 DEF Receive, vars
<1>13. CASE Disconnect \/ Disconnected
  <2>1. /\ UNCHANGED <<isClosed, buffer, events, polled, skipped>>
        /\ pc[Main] \in MainPcs
        /\ \E label : Goto(Main, label)
    BY <1>13 DEF Disconnect, Disconnected, MainPcs
  <2>. QED
    BY <2>1, BystanderWatched DEF Threads, Flushing, MainPcs, FlushPcs
<1>. QED
  BY <1>1, <1>4, <1>5, <1>6, <1>7, <1>8, <1>9, <1>10, <1>11, <1>12, <1>13
     DEF Next, SendStep, WriteStep, LoopStep, Threads

(* Watched holds for good.                                                 *)
LEMMA AlwaysWatched == Spec => [](TypeOK /\ MutexIsHeld /\ Watched)
<1>1. Init => OwnCode
  BY ConstantsAssumption DEF Init, OwnCode, Threads, MainPcs
<1>2. /\ TypeOK /\ OwnCode /\ [Next]_vars => OwnCode'
      /\ TypeOK /\ MutexIsHeld /\ OwnCode /\ Watched /\ [Next]_vars => Watched'
  BY OwnCodeStep, WatchedStep
<1>. QED
  BY <1>1, <1>2, InitWatched, AlwaysHeld, PTL DEF Spec

(* Theorem: giving up a flush because try_lock fails loses it only when    *)
(* HandleRead or Disconnect has the mutex, whatever the number of writers. *)
THEOREM FlushLost == Spec => []FlushLostOnlyToReadOrStop
BY AlwaysWatched, PTL DEF Watched

(* Theorem: an open connection whose mutex is free is watched for writing  *)
(* only when there is something to write.                                  *)
THEOREM NoIdleWriting == Spec => []OutOnlyWithData
<1>1. TypeOK /\ MutexIsHeld /\ Watched => OutOnlyWithData
  BY HolderPcsAre, ConstantsAssumption
     DEF MutexIsHeld, Watched, OutMeansData, OutOnlyWithData, Flushing, FlushPcs, Threads
<1>. QED
  BY <1>1, AlwaysWatched, PTL

-----------------------------------------------------------------------------
(* The bytes.  Between two ::send calls the front of the queue is what     *)
(* follows the last byte sent; between a ::send and the advance of the     *)
(* index, which one thread makes under the mutex, the last bytes sent are  *)
(* those at the front.                                                     *)
Successor(n) == (n + 1) % Numbers

Consecutive ==
  \A i \in 1..Len(buffer) :
    /\ i < Len(buffer) => buffer[i + 1].number = Successor(buffer[i].number)
                          /\ buffer[i + 1].index = 0
    /\ i = Len(buffer) => numbered = Successor(buffer[i].number)
Advancing(t) == pc[t] = "advance"
TakenToAdvance == \A t \in Threads : ~Advancing(t) => taken[t] = 0
SentIsFront ==
  \A t \in Threads : Advancing(t) =>
    /\ buffer # <<>> /\ taken[t] > 0
    /\ wire.number = buffer[1].number
    /\ wire.to = buffer[1].index + taken[t]
FrontFollows ==
  (\A t \in Threads : ~Advancing(t)) =>
    IF buffer = <<>>
    THEN wire.to = PacketSize /\ numbered = Successor(wire.number)
    ELSE IF wire.to = PacketSize
         THEN buffer[1].number = Successor(wire.number) /\ buffer[1].index = 0
         ELSE buffer[1].number = wire.number /\ buffer[1].index = wire.to

Ordered ==
  /\ Consecutive
  /\ TakenToAdvance
  /\ SentIsFront
  /\ FrontFollows

(* A new connection has sent nothing, and the next packet is the first.    *)
LEMMA InitOrdered == Init => Ordered
<1>. SUFFICES ASSUME Init PROVE Ordered
  OBVIOUS
<1>1. Consecutive /\ TakenToAdvance /\ SentIsFront
  BY DEF Init, Consecutive, TakenToAdvance, SentIsFront, Advancing
<1>2. Successor(Numbers - 1) = 0
  BY ConstantsAssumption DEF Successor
<1>3. FrontFollows
  BY <1>2 DEF Init, FrontFollows
<1>. QED
  BY <1>1, <1>3 DEF Ordered

(* A step that leaves queue, wire and advancing threads alone keeps        *)
(* Ordered.                                                                *)
LEMMA BystanderOrdered ==
  ASSUME Ordered, UNCHANGED <<buffer, numbered, taken, wire>>,
         \A t \in Threads : Advancing(t)' <=> Advancing(t)
  PROVE  Ordered'
<1>. USE DEF Ordered
<1>1. Consecutive'
  BY DEF Consecutive, Successor
<1>2. TakenToAdvance' /\ SentIsFront'
  BY DEF TakenToAdvance, SentIsFront
<1>3. FrontFollows'
  BY DEF FrontFollows, Successor
<1>. QED
  BY <1>1, <1>2, <1>3

(* Which threads advance the index after a thread has moved.               *)
LEMMA GotoAdvancing ==
  ASSUME TypeOK, NEW t \in Threads, NEW label, Goto(t, label)
  PROVE  /\ Advancing(t)' <=> label = "advance"
         /\ \A u \in Threads : u # t => (Advancing(u)' <=> Advancing(u))
BY DEF Goto, Advancing, TypeOK

(* Append puts the next number at the back.                                *)
LEMMA AppendOrdered ==
  ASSUME TypeOK, MutexIsHeld, Ordered, NEW t \in Threads, SendAppend(t), ~Full
  PROVE  Ordered'
<1>. USE DEF Ordered
<1>1. \A u \in Threads : ~Advancing(u) /\ ~Advancing(u)'
  <2>1. \A u \in Threads : ~Advancing(u)
    BY ConstantsAssumption DEF SendAppend, Lock, MutexIsHeld, Advancing, HolderPcs,
       FlushPcs, Threads
  <2>. QED
    BY <2>1, GotoAdvancing DEF SendAppend
<1>. DEFINE new == [number |-> numbered, index |-> 0]
<1>2. /\ buffer' = Append(buffer, new) /\ numbered' = Successor(numbered)
      /\ UNCHANGED <<taken, wire>>
  BY DEF SendAppend, socketVars, Successor
<1>3. /\ Len(buffer) \in Nat /\ Len(buffer') = Len(buffer) + 1
      /\ \A i \in 1..Len(buffer) : buffer'[i] = buffer[i]
      /\ buffer'[Len(buffer) + 1] = new
  BY <1>2 DEF TypeOK
<1>4. Consecutive'
  <2>. SUFFICES ASSUME NEW i \in 1..Len(buffer')
                PROVE  /\ i < Len(buffer') => buffer'[i + 1].number = Successor(buffer'[i].number)
                                              /\ buffer'[i + 1].index = 0
                       /\ i = Len(buffer') => numbered' = Successor(buffer'[i].number)
    BY DEF Consecutive, Successor
  <2>1. CASE i < Len(buffer)
    BY <1>3, <2>1 DEF Consecutive
  <2>2. CASE i = Len(buffer)
    BY <1>3, <2>2 DEF Consecutive
  <2>3. CASE i = Len(buffer) + 1
    BY <1>2, <1>3, <2>3
  <2>. QED
    BY <1>3, <2>1, <2>2, <2>3
<1>5. TakenToAdvance' /\ SentIsFront'
  BY <1>1, <1>2 DEF TakenToAdvance, SentIsFront
<1>6. FrontFollows'
  <2>1. CASE buffer = <<>>
    <3>1. buffer' # <<>> /\ buffer'[1] = new
      BY <1>3, <2>1
    <3>. QED
      BY <1>1, <1>2, <2>1, <3>1 DEF FrontFollows, Successor
  <2>2. CASE buffer # <<>>
    <3>1. buffer' # <<>> /\ buffer'[1] = buffer[1]
      BY <1>2, <1>3, <2>2 DEF TypeOK
    <3>. QED
      BY <1>1, <1>2, <2>2, <3>1 DEF FrontFollows, Successor
  <2>. QED
    BY <2>1, <2>2
<1>. QED
  BY <1>4, <1>5, <1>6

(* What one ::send that takes bytes does.                                  *)
Takes(t) == pc[t] = "flushing" /\ pc'[t] = "advance"

(* A ::send takes bytes of the front packet, from where the last one       *)
(* ended.                                                                  *)
LEMMA TakesFront ==
  ASSUME TypeOK, MutexIsHeld, Ordered, NEW t \in Threads, SocketSend(t), Takes(t)
  PROVE  /\ \A u \in Threads : ~Advancing(u)
         /\ buffer # <<>> /\ buffer[1] \in Packet
         /\ \E count \in 1..PacketSize :
              /\ wire' = [number |-> buffer[1].number, from |-> buffer[1].index,
                          to |-> buffer[1].index + count]
              /\ taken' = [taken EXCEPT ![t] = count]
<1>1. \A u \in Threads : ~Advancing(u)
  BY DEF SocketSend, MutexIsHeld, Advancing, HolderPcs, FlushPcs
<1>2. ~Goto(t, "update") /\ ~Goto(t, "failed")
  BY DEF Takes, Goto, TypeOK
<1>. DEFINE left == PacketSize - Head(buffer).index
            count == IF left < free THEN left ELSE free
<1>3. /\ buffer # <<>> /\ free > 0
      /\ wire' = [number |-> Head(buffer).number, from |-> Head(buffer).index,
                  to |-> Head(buffer).index + count]
      /\ taken' = [taken EXCEPT ![t] = count]
  BY <1>2 DEF SocketSend
<1>4. Head(buffer) = buffer[1] /\ buffer[1] \in Packet
  BY <1>3 DEF TypeOK
<1>5. count \in 1..PacketSize
  <2>1. left \in 1..PacketSize
    BY <1>4, ConstantsAssumption DEF Packet
  <2>2. free \in Nat /\ free > 0
    BY <1>3, ConstantsAssumption DEF TypeOK
  <2>. HIDE DEF left
  <2>. QED
    BY <2>1, <2>2, ConstantsAssumption
<1>. QED
  BY <1>1, <1>3, <1>4, <1>5

(* After a ::send the last bytes sent are those at the front.              *)
LEMMA TakeOrdered ==
  ASSUME TypeOK, MutexIsHeld, Ordered, NEW t \in Threads, SocketSend(t), Takes(t)
  PROVE  Ordered'
<1>. USE DEF Ordered
<1>1. UNCHANGED <<buffer, numbered>>
  BY DEF SocketSend, bufferVars
<1>2. Advancing(t)' /\ \A u \in Threads : u # t => ~Advancing(u)'
  <2>1. \E label : Goto(t, label)
    BY DEF SocketSend
  <2>. QED
    BY <2>1, GotoAdvancing, TakesFront DEF Takes, Advancing
<1>3. PICK count \in 1..PacketSize :
        /\ wire' = [number |-> buffer[1].number, from |-> buffer[1].index,
                    to |-> buffer[1].index + count]
        /\ taken' = [taken EXCEPT ![t] = count]
  BY TakesFront
<1>4. Consecutive'
  BY <1>1 DEF Consecutive, Successor
<1>5. TakenToAdvance'
  BY <1>2, <1>3, TakesFront DEF TakenToAdvance, TypeOK
<1>6. SentIsFront'
  BY <1>1, <1>2, <1>3, TakesFront DEF SentIsFront, TypeOK
<1>7. FrontFollows'
  BY <1>2 DEF FrontFollows
<1>. QED
  BY <1>4, <1>5, <1>6, <1>7

(* Sequences that lose their front, or whose front changes.                *)
LEMMA AtLeastOne == ASSUME NEW n \in Nat, n # 0 PROVE n = 1 \/ n > 1
OBVIOUS

(* What is left of a sequence without its front.                           *)
LEMMA TailItems ==
  ASSUME NEW S, NEW s \in Seq(S), s # <<>>
  PROVE  /\ Len(s) \in Nat /\ Len(s) # 0
         /\ Len(Tail(s)) = Len(s) - 1
         /\ \A i \in 1..Len(s) - 1 : Tail(s)[i] = s[i + 1]
         /\ Len(s) = 1 => Tail(s) = <<>>
         /\ Len(s) > 1 => Tail(s) # <<>> /\ Tail(s)[1] = s[2]
<1>1. Len(s) \in Nat /\ Len(s) # 0 /\ Len(Tail(s)) = Len(s) - 1 /\ Tail(s) \in Seq(S)
  OBVIOUS
<1>2. ASSUME NEW i \in 1..Len(s) - 1 PROVE Tail(s)[i] = s[i + 1]
  BY <1>1
<1>3. ASSUME NEW q \in Seq(S), Len(q) = 0 PROVE q = <<>>
  BY <1>3, EmptySeq
<1>4. Len(s) = 1 => Tail(s) = <<>>
  <2>1. Len(s) = 1 => Len(Tail(s)) = 0
    BY <1>1
  <2>. QED
    BY <1>1, <1>3, <2>1
<1>5. Len(s) > 1 => Tail(s) # <<>>
  <2>1. Len(s) > 1 => Len(Tail(s)) # 0
    BY <1>1, SMTT(30)
  <2>. QED
    BY <2>1, EmptySeq
<1>6. Len(s) > 1 => Tail(s)[1] = s[2]
  BY <1>1
<1>. QED
  BY <1>1, <1>2, <1>4, <1>5, <1>6

(* A sequence whose front has changed.                                     *)
LEMMA FrontChanged ==
  ASSUME NEW S, NEW s \in Seq(S), s # <<>>, NEW x
  PROVE  LET new == [s EXCEPT ![1] = x]
         IN  /\ Len(new) = Len(s) /\ new # <<>> /\ new[1] = x
             /\ \A i \in 1..Len(s) : i # 1 => new[i] = s[i]
OBVIOUS

(* Advancing the index, or popping the front, makes the front follow the   *)
(* last bytes sent.                                                        *)
LEMMA AdvanceOrdered ==
  ASSUME TypeOK, MutexIsHeld, Ordered, NEW t \in Threads, Advance(t)
  PROVE  Ordered'
<1>. USE DEF Ordered
<1>. DEFINE index == buffer[1].index + taken[t]
<1>1. /\ Advancing(t) /\ buffer # <<>> /\ Head(buffer) = buffer[1] /\ buffer[1] \in Packet
      /\ wire.number = buffer[1].number /\ wire.to = index
      /\ Len(buffer) \in Nat \ {0} /\ buffer \in Seq(Packet)
  BY DEF Advance, Advancing, SentIsFront, TypeOK
<1>7. Len(buffer) \in Nat /\ Len(buffer) # 0 /\ (Len(buffer) = 1 \/ Len(buffer) > 1)
  BY <1>1, AtLeastOne
<1>2. \A u \in Threads : ~Advancing(u)' /\ (u # t => ~Advancing(u))
  <2>1. Goto(t, "flushing") \/ Goto(t, "update")
    BY DEF Advance
  <2>2. \A u \in Threads : u # t => ~Advancing(u)
    BY DEF Advance, MutexIsHeld, Advancing, HolderPcs, FlushPcs
  <2>. QED
    BY <2>1, <2>2, GotoAdvancing
<1>3. /\ UNCHANGED <<numbered, wire>>
      /\ taken' = [taken EXCEPT ![t] = 0]
      /\ IF index >= PacketSize THEN buffer' = Tail(buffer)
                                ELSE buffer' = [buffer EXCEPT ![1].index = index]
  BY <1>1 DEF Advance
<1>. HIDE DEF index
<1>4. TakenToAdvance' /\ SentIsFront'
  <2>1. \A u \in Threads : taken'[u] = 0
    BY <1>2, <1>3 DEF TakenToAdvance, TypeOK
  <2>. QED
    BY <1>2, <2>1 DEF TakenToAdvance, SentIsFront
<1>5. CASE index >= PacketSize
  <2>1. wire.to = PacketSize
    BY <1>1, <1>5, ConstantsAssumption DEF TypeOK
  <2>. DEFINE n == Len(buffer)
  <2>2. /\ n \in Nat /\ buffer' = Tail(buffer) /\ Len(buffer') = n - 1
        /\ \A i \in 1..n - 1 : buffer'[i] = buffer[i + 1]
        /\ n = 1 => buffer' = <<>>
        /\ n > 1 => buffer' # <<>> /\ buffer'[1] = buffer[2]
    BY <1>1, <1>3, <1>5, TailItems
  <2>3. \A i \in 1..n :
          /\ i < n => buffer[i + 1].number = Successor(buffer[i].number)
                      /\ buffer[i + 1].index = 0
          /\ i = n => numbered = Successor(buffer[i].number)
    BY DEF Consecutive
  <2>. HIDE DEF n
  <2>4. Consecutive'
    <3>1. SUFFICES ASSUME NEW i \in 1..n - 1
                   PROVE  /\ i < n - 1 => buffer'[i + 1].number = Successor(buffer'[i].number)
                                          /\ buffer'[i + 1].index = 0
                          /\ i = n - 1 => numbered' = Successor(buffer'[i].number)
      BY <2>2 DEF Consecutive, Successor
    <3>2. i + 1 \in 1..n /\ buffer'[i] = buffer[i + 1]
      BY <2>2
    <3>3. CASE i < n - 1
      <4>1. i + 1 \in 1..n - 1 /\ i + 1 < n
        BY <2>2, <3>3
      <4>. QED
        BY <2>2, <2>3, <3>2, <3>3, <4>1
    <3>4. CASE i = n - 1
      BY <1>3, <2>2, <2>3, <3>2, <3>4
    <3>. QED
      BY <2>2, <3>3, <3>4
  <2>5. FrontFollows'
    <3>1. CASE n = 1
      BY <1>2, <1>3, <1>1, <2>1, <2>2, <2>3, <3>1 DEF FrontFollows, Successor
    <3>2. CASE n > 1
      <4>1. buffer[2].number = Successor(buffer[1].number) /\ buffer[2].index = 0
        <5>1. 1 \in 1..n /\ 1 < n /\ 1 + 1 = 2
          BY <2>2, <3>2
        <5>. QED
          BY <2>3, <5>1
      <4>. QED
        BY <1>1, <1>2, <1>3, <2>1, <2>2, <3>2, <4>1 DEF FrontFollows, Successor
    <3>. QED
      BY <1>7, <3>1, <3>2 DEF n
  <2>. QED
    BY <1>4, <2>4, <2>5
<1>6. CASE ~(index >= PacketSize)
  <2>1. wire.to # PacketSize
    BY <1>1, <1>6, ConstantsAssumption DEF Packet, TypeOK
  <2>. DEFINE n == Len(buffer)
              front == [buffer[1] EXCEPT !.index = index]
  <2>2. buffer' = [buffer EXCEPT ![1] = front]
    BY <1>3, <1>6
  <2>. HIDE DEF front
  <2>3. /\ n \in Nat /\ n # 0 /\ Len(buffer') = n /\ buffer' # <<>> /\ buffer'[1] = front
        /\ \A i \in 1..n : i # 1 => buffer'[i] = buffer[i]
    BY <1>1, <1>7, <2>2, FrontChanged
  <2>4. buffer'[1].number = buffer[1].number /\ buffer'[1].index = index
    BY <1>1, <2>3 DEF Packet, front
  <2>5. \A i \in 1..n : buffer'[i].number = buffer[i].number
    BY <2>3, <2>4
  <2>6. \A i \in 1..n :
          /\ i < n => buffer[i + 1].number = Successor(buffer[i].number)
                      /\ buffer[i + 1].index = 0
          /\ i = n => numbered = Successor(buffer[i].number)
    BY DEF Consecutive
  <2>. HIDE DEF n
  <2>7. Consecutive'
    <3>1. SUFFICES ASSUME NEW i \in 1..n
                   PROVE  /\ i < n => buffer'[i + 1].number = Successor(buffer'[i].number)
                                      /\ buffer'[i + 1].index = 0
                          /\ i = n => numbered' = Successor(buffer'[i].number)
      BY <2>3 DEF Consecutive, Successor
    <3>2. CASE i < n
      <4>1. i + 1 \in 1..n /\ i + 1 # 1
        BY <2>3, <3>2
      <4>. QED
        BY <2>3, <2>5, <2>6, <3>2, <4>1
    <3>3. CASE i = n
      BY <1>3, <2>5, <2>6, <3>3
    <3>. QED
      BY <2>3, <3>2, <3>3
  <2>8. FrontFollows'
    BY <1>1, <1>2, <1>3, <2>1, <2>3, <2>4 DEF FrontFollows
  <2>. QED
    BY <1>4, <2>7, <2>8
<1>. QED
  BY <1>5, <1>6

(* Every step.                                                             *)
LEMMA OrderedStep ==
  ASSUME TypeOK, MutexIsHeld, Ordered, [Next]_vars
  PROVE  Ordered'
<1>1. Loop \in Threads /\ Main \in Threads /\ Workers \subseteq Threads
  BY DEF Threads
<1>2. ASSUME NEW t \in Threads, NEW label \in Labels \ {"advance"}, pc[t] # "advance",
             Goto(t, label), UNCHANGED <<buffer, numbered, taken, wire>>
      PROVE  Ordered'
  <2>1. \A u \in Threads : Advancing(u)' <=> Advancing(u)
    BY <1>2, GotoAdvancing DEF Advancing
  <2>. QED
    BY <1>2, <2>1, BystanderOrdered
<1>3. ASSUME pc' = pc, UNCHANGED <<buffer, numbered, taken, wire>>
      PROVE  Ordered'
  BY <1>3, BystanderOrdered DEF Advancing
<1>. USE LabelsAre, ResumeLabel DEF bufferVars, socketVars
<1>4. ASSUME NEW t \in Threads, StartSend(t) \/ Send(t) \/ Appended(t) \/ HandleWrite(t)
                                 \/ Update(t) \/ Failed(t)
      PROVE  Ordered'
  BY <1>2, <1>4 DEF StartSend, Send, Appended, HandleWrite, Update, Failed
<1>5. ASSUME NEW t \in Threads, SendAppend(t)
      PROVE  Ordered'
  BY <1>2, <1>5, AppendOrdered DEF SendAppend
<1>6. ASSUME NEW t \in Threads, TryLock(t)
      PROVE  Ordered'
  BY <1>2, <1>6 DEF TryLock
<1>7. ASSUME NEW t \in Threads, SocketSend(t)
      PROVE  Ordered'
  <2>1. CASE Takes(t)
    BY <1>7, <2>1, TakeOrdered
  <2>2. CASE ~Takes(t)
    <3>1. ~Goto(t, "advance")
      BY <1>7, <2>2 DEF SocketSend, Takes, Goto, TypeOK
    <3>. QED
      BY <1>2, <1>7, <3>1 DEF SocketSend
  <2>. QED
    BY <2>1, <2>2
<1>8. ASSUME NEW t \in Threads, Advance(t)
      PROVE  Ordered'
  BY <1>8, AdvanceOrdered
<1>9. CASE HandleEvent \/ LoopStep \/ Disconnect \/ Disconnected
  BY <1>1, <1>2, <1>9
     DEF HandleEvent, LoopStep, Callback, HandleRead, Read, ReadCallback, LockToClose, HandleClose,
         Disconnect, Disconnected
<1>10. CASE QueuedClose \/ Receive \/ UNCHANGED vars
  BY <1>3, <1>10 DEF QueuedClose, Receive, vars
<1>. QED
  BY <1>1, <1>4, <1>5, <1>6, <1>7, <1>8, <1>9, <1>10 DEF Next, SendStep, WriteStep

(* Ordered holds for good.                                                 *)
LEMMA AlwaysOrdered == Spec => [](TypeOK /\ MutexIsHeld /\ Ordered)
BY InitOrdered, OrderedStep, AlwaysHeld, PTL DEF Spec

(* Theorem: the bytes the socket takes are those of the accepted packets,  *)
(* in the order in which Append accepted them, whatever threads send.      *)
THEOREM WireSafe == Spec => WireInOrder
<1>1. ASSUME TypeOK, MutexIsHeld, Ordered, [Next]_vars,
             NEW t \in Threads, taken[t] = 0, taken'[t] > 0
      PROVE  Follows(wire', wire)
  <2>1. SocketSend(t) /\ Takes(t)
    <3>1. taken' # taken /\ \A u \in Threads : taken' # [taken EXCEPT ![u] = 0]
      BY <1>1 DEF TypeOK
    <3>2. ~[HandleEvent \/ LoopStep \/ Disconnect \/ Disconnected \/ QueuedClose
             \/ Receive]_vars
      BY <3>1 DEF HandleEvent, LoopStep, Callback, HandleRead, Read, ReadCallback, LockToClose,
                  HandleClose, Disconnect, Disconnected, QueuedClose, Receive, socketVars, vars
    <3>3. \A u \in Threads : ~(StartSend(u) \/ SendStep(u) \/ HandleWrite(u) \/ TryLock(u)
                               \/ Advance(u) \/ Update(u) \/ Failed(u))
      BY <3>1 DEF StartSend, SendStep, Send, SendAppend, Appended, HandleWrite, TryLock,
                  Advance, Update, Failed, socketVars
    <3>4. PICK u \in Threads : SocketSend(u)
      BY <1>1, <3>2, <3>3 DEF Next, WriteStep, Threads
    <3>5. Goto(u, "advance") /\ \E count : taken' = [taken EXCEPT ![u] = count]
      BY <3>1, <3>4 DEF SocketSend, socketVars
    <3>6. u = t
      BY <1>1, <3>5 DEF TypeOK
    <3>. QED
      BY <1>1, <3>4, <3>5, <3>6 DEF Takes, Goto, SocketSend, TypeOK
  <2>2. PICK count \in 1..PacketSize :
          /\ wire' = [number |-> buffer[1].number, from |-> buffer[1].index,
                      to |-> buffer[1].index + count]
          /\ taken' = [taken EXCEPT ![t] = count]
    BY <1>1, <2>1, TakesFront
  <2>3. buffer # <<>> /\ \A u \in Threads : ~Advancing(u)
    BY <1>1, <2>1, TakesFront
  <2>. QED
    BY <1>1, <2>2, <2>3 DEF Ordered, FrontFollows, Follows, Successor
<1>2. TypeOK /\ MutexIsHeld /\ Ordered /\ [Next]_vars
        => [(\E t \in Threads : taken[t] = 0 /\ taken'[t] > 0) => Follows(wire', wire)]_vars
  BY <1>1
<1>. QED
  BY <1>2, AlwaysOrdered, PTL DEF WireInOrder, Spec
-----------------------------------------------------------------------------
(* A closed connection whose Close overtook nobody has its channel off the *)
(* poller, and nobody can bring it back.                                   *)
NobodyBehind ==
  isClosed /\ ~overtaken => polled = {} /\ \A t \in Threads : ~PastTest(t)

(* A step that does not close: only one that starts inside HandleWrite can *)
(* end there or bring the channel back, once the connection is closed.     *)
LEMMA StaysBehind ==
  ASSUME TypeOK, NobodyBehind, NEW t \in Threads, NEW label, Goto(t, label),
         UNCHANGED <<isClosed, overtaken>>,
         isClosed /\ ~PastTest(t) => polled' = polled /\ label \notin {"tryLock"} \cup FlushPcs
  PROVE  NobodyBehind'
BY DEF NobodyBehind, PastTest, Goto, TypeOK

(* A step that closes: the thread itself leaves HandleWrite, if it was in  *)
(* there.                                                                  *)
LEMMA ClosesBehind ==
  ASSUME TypeOK, NobodyBehind, NEW t \in Threads, Close(t),
         \/ pc' = pc /\ ~PastTest(t)
         \/ \E label : Goto(t, label) /\ label \notin {"tryLock"} \cup FlushPcs
  PROVE  NobodyBehind'
<1>1. /\ \A u \in Threads \ {t} : pc'[u] = pc[u]
      /\ pc'[t] \notin {"tryLock"} \cup FlushPcs
  BY DEF Goto, TypeOK, PastTest
<1>. QED
  BY <1>1 DEF NobodyBehind, PastTest, Close

(* Every step.                                                             *)
LEMMA BehindStep ==
  ASSUME TypeOK, NobodyBehind, [Next]_vars
  PROVE  NobodyBehind'
<1>. USE ResumeLabel DEF closeVars, FlushPcs
<1>1. Loop \in Threads /\ Main \in Threads /\ Workers \subseteq Threads
  BY DEF Threads
<1>2. ASSUME NEW t \in Threads, StartSend(t) \/ SendStep(t)
      PROVE  NobodyBehind'
  BY <1>2, StaysBehind DEF StartSend, SendStep, Send, SendAppend, Appended, pollVars
<1>3. ASSUME NEW t \in Threads, HandleWrite(t)
      PROVE  NobodyBehind'
  BY <1>3, StaysBehind DEF HandleWrite, StillOpen, pollVars
<1>4. ASSUME NEW t \in Threads, TryLock(t) \/ SocketSend(t) \/ Advance(t) \/ Update(t)
      PROVE  NobodyBehind'
  <2>1. PastTest(t) /\ UNCHANGED <<isClosed, overtaken>> /\ \E label : Goto(t, label)
    BY <1>4 DEF TryLock, SocketSend, Advance, Update, PastTest
  <2>. QED
    BY <2>1, StaysBehind
<1>5. ASSUME NEW t \in Threads, Failed(t)
      PROVE  NobodyBehind'
  BY <1>5, ClosesBehind DEF Failed
<1>6. CASE HandleEvent \/ Callback \/ HandleRead \/ ReadCallback \/ LockToClose
             \/ Disconnect \/ Disconnected \/ (Read /\ UNCHANGED closeVars)
  <2>1. PICK t \in {Loop, Main} :
          /\ UNCHANGED <<isClosed, overtaken>> /\ (isClosed => UNCHANGED polled)
          /\ \E label \in Labels \ ({"tryLock"} \cup FlushPcs) : Goto(t, label)
    BY <1>6, LabelsAre DEF HandleEvent, Callback, HandleRead, ReadCallback, LockToClose, Read,
       Disconnect, Disconnected, Close, pollVars
  <2>. QED
    BY <1>1, <2>1, StaysBehind
<1>7. CASE HandleClose \/ (Read /\ Close(Loop))
  BY <1>1, <1>7, ClosesBehind DEF HandleClose, Read
<1>8. CASE QueuedClose
  BY <1>1, <1>8, ClosesBehind DEF QueuedClose, PastTest
<1>9. CASE Receive \/ UNCHANGED vars
  BY <1>9 DEF Receive, vars, pollVars, NobodyBehind, PastTest
<1>. QED
  BY <1>1, <1>2, <1>3, <1>4, <1>5, <1>6, <1>7, <1>8, <1>9
     DEF Next, WriteStep, LoopStep, Read, closeVars

(* Theorem: a closed channel comes back to the poller only through a       *)
(* thread that its Close overtook in HandleWrite, for any number of        *)
(* threads and whoever closes.                                             *)
THEOREM BackSafe == Spec => []BackOnlyIfOvertaken
<1>1. Init => NobodyBehind
  BY DEF Init, NobodyBehind
<1>2. NobodyBehind => BackOnlyIfOvertaken
  BY DEF NobodyBehind, BackOnlyIfOvertaken
<1>3. TypeOK /\ NobodyBehind /\ [Next]_vars => NobodyBehind'
  BY BehindStep
<1>. QED
  BY <1>1, <1>2, <1>3, TypeCorrect, PTL DEF Spec
=============================================================================
