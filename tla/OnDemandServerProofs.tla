------------------------ MODULE OnDemandServerProofs ------------------------
(***************************************************************************)
(* Theorems about module OnDemandServer, for every set of connections,     *)
(* sessions and descriptors.                                               *)
(***************************************************************************)
EXTENDS OnDemandServer, TLAPS

(* What the type invariant needs to be inductive: a thread that works      *)
(* works for an accepted connection, and the loop adds a client only to a  *)
(* session it has found.                                                   *)
RegisteredIsAccepted == \A c \in Conns, fd \in Fds : connections[fd] = c => fdOf[c] = fd
LoopServes == pc[Loop] # "idle" => serving \in Conns /\ Accepted(serving)
StartedIsAccepted == \A w \in Workers : pc[w] # "none" => Accepted(w[2])
QueuedIsAccepted ==
  \A i \in 1..Len(triggers) : triggers[i].kind = "close" => Accepted(triggers[i].conn)
AddsToSession == pc[Loop] = "addClient" => target[Loop] \in Sessions

Typed ==
  /\ TypeOK
  /\ RegisteredIsAccepted
  /\ LoopServes
  /\ StartedIsAccepted
  /\ QueuedIsAccepted
  /\ AddsToSession

(* A trigger event is one of two kinds, and its other field has a type.    *)
LEMMA TriggerKinds ==
  ASSUME NEW e \in TriggerEvents
  PROVE  /\ e.kind \in {"remove", "close"}
         /\ e.kind = "remove" => e.fd \in Fds /\ e = RemoveEvent(e.fd)
         /\ e.kind = "close" => e.conn \in Conns /\ e = CloseEvent(e.conn)
BY DEF TriggerEvents, RemoveEvent, CloseEvent

(* The two kinds differ, and removals of different numbers do.             *)
LEMMA EventsDiffer ==
  /\ \A f, g : RemoveEvent(f) = RemoveEvent(g) => f = g
  /\ \A c, d : CloseEvent(c) = CloseEvent(d) => c = d
  /\ \A c, fd : CloseEvent(c) # RemoveEvent(fd)
<1>1. \A f, g : RemoveEvent(f).fd = f /\ CloseEvent(g).conn = g
  BY DEF RemoveEvent, CloseEvent
<1>2. \A f, g : RemoveEvent(f).kind = "remove" /\ CloseEvent(g).kind = "close"
  BY DEF RemoveEvent, CloseEvent
<1>. QED
  BY <1>1, <1>2

(* A started thread works for an accepted connection.                      *)
LEMMA WorkingConn ==
  ASSUME Typed, NEW t \in Threads, pc[t] \notin {"idle", "none"}
  PROVE  ConnOf(t) \in Conns /\ fdOf[ConnOf(t)] \in Fds
BY ConstantsAssumption DEF Typed, TypeOK, LoopServes, StartedIsAccepted, Accepted,
   ConnOf, Threads, Workers

(* A thread that goes on to another step keeps pc and serving typed.       *)
LEMMA GotoTyped ==
  ASSUME TypeOK, NEW t \in Threads, NEW label \in LoopPcs \cup WorkerPcs, Goto(t, label)
  PROVE  /\ pc' \in [Threads -> LoopPcs \cup WorkerPcs]
         /\ serving' \in Conns \cup {NoConn}
BY DEF Goto, TypeOK

(* The server starts typed: nothing accepted, nothing queued, nobody       *)
(* working.                                                                *)
LEMMA InitTyped == Init => Typed
<1>. SUFFICES ASSUME Init PROVE Typed
  OBVIOUS
<1>1. pc \in [Threads -> LoopPcs \cup WorkerPcs] /\ rtp \in [Conns -> Rtp]
  BY DEF Init, Threads, LoopPcs, WorkerPcs, Rtp, NoRtp
<1>2. TypeOK
  <2>1. clients \in [Sessions -> [Fds -> Conns \cup {NoConn}]]
    BY DEF Init
  <2>2. triggers \in Seq(TriggerEvents)
    BY DEF Init
  <2>3. /\ fdOf \in [Conns -> Fds \cup {NoFd}]
        /\ connections \in [Fds -> Conns \cup {NoConn}]
        /\ isClosed \in [Conns -> BOOLEAN]
        /\ connMutex \in [Conns -> Threads \cup {NoThread}]
        /\ sessionId \in [Conns -> Sessions \cup {NoSession}]
        /\ mapMutex \in [Sessions -> Threads \cup {NoThread}]
        /\ target \in [Threads -> Sessions \cup {NoSession}]
    BY DEF Init
  <2>4. /\ handlers \subseteq Workers /\ running \subseteq Workers
        /\ serving \in Conns \cup {NoConn}
        /\ stop \in {"run", "disconnecting", "closing", "waiting", "stopped"}
        /\ swept \subseteq Conns
        /\ terminated \in BOOLEAN
    BY DEF Init
  <2>. QED
    BY <1>1, <2>1, <2>2, <2>3, <2>4 DEF TypeOK
<1>3. pc[Loop] = "idle" /\ \A w \in Workers : pc[w] = "none"
  BY ConstantsAssumption DEF Init, Threads, Workers
<1>4. RegisteredIsAccepted /\ QueuedIsAccepted
  BY ConstantsAssumption DEF Init, RegisteredIsAccepted, QueuedIsAccepted
<1>. QED
  BY <1>2, <1>3, <1>4 DEF Typed, LoopServes, StartedIsAccepted, AddsToSession

(* All the steps at which a thread can be.                                 *)
LEMMA Labels ==
  LoopPcs \cup WorkerPcs =
    {"idle", "read", "request", "addClient", "error", "send", "sendLock", "flush",
     "close", "closing", "removeClient", "join", "disconnect",
     "none", "open", "check", "frame", "done", "refused"}
BY DEF LoopPcs, WorkerPcs, EndPcs, SendPcs, ClosePcs

(* The event loop and the workers are threads.                             *)
LEMMA ThreadsOf == Loop \in Threads /\ Workers \subseteq Threads
BY DEF Threads

(* What AddTriggerEvent is given is a trigger event.                       *)
LEMMA NewEvents ==
  /\ \A fd \in Fds : RemoveEvent(fd) \in TriggerEvents
  /\ \A c \in Conns : CloseEvent(c) \in TriggerEvents
BY DEF TriggerEvents

(* Assignments to the fields of an RtpConnection keep its type.            *)
LEMMA RtpUpdate ==
  ASSUME NEW r \in Rtp
  PROVE  /\ [r EXCEPT !.made = TRUE] \in Rtp
         /\ [r EXCEPT !.play = @ \/ r.setup] \in Rtp
BY Zenon DEF Rtp

(* So do those of Close and Teardown.                                      *)
LEMMA RtpUpdate2 ==
  ASSUME NEW r \in Rtp
  PROVE  /\ [r EXCEPT !.closed = TRUE, !.play = FALSE] \in Rtp
         /\ [r EXCEPT !.closed = @ \/ r.made, !.play = @ /\ r.closed] \in Rtp
BY Zenon DEF Rtp

(* Every step preserves the types.                                         *)
LEMMA TypeStep ==
  ASSUME Typed, Next
  PROVE  TypeOK'
<1>. USE DEF Typed, netVars, sessionVars, stopVars, requestUnchanged, workerUnchanged,
             stopUnchanged, Requesting
<1>1. ASSUME NEW c \in Conns, Accept(c) PROVE TypeOK'
  <2>1. fdOf' \in [Conns -> Fds \cup {NoFd}]
    BY <1>1 DEF Accept, TypeOK, FreeFds
  <2>2. connections' \in [Fds -> Conns \cup {NoConn}]
    BY <1>1 DEF Accept, TypeOK, FreeFds
  <2>. QED
    BY <1>1, <2>1, <2>2 DEF Accept, TypeOK
<1>2. ASSUME NEW c \in Conns, HandleEvent(c) PROVE TypeOK'
  BY <1>2, ConstantsAssumption, Labels, ThreadsOf DEF HandleEvent, Goto, TypeOK
<1>3. ASSUME HandleTriggerEvent PROVE TypeOK'
  <2>1. Head(triggers) \in TriggerEvents /\ triggers' \in Seq(TriggerEvents)
    BY <1>3 DEF HandleTriggerEvent, TypeOK
  <2>2. connections' \in [Fds -> Conns \cup {NoConn}]
    BY <1>3 DEF HandleTriggerEvent, TypeOK
  <2>3. pc' \in [Threads -> LoopPcs \cup WorkerPcs] /\ serving' \in Conns \cup {NoConn}
    BY <1>3, <2>1, Labels, TriggerKinds DEF HandleTriggerEvent, TypeOK
  <2>. QED
    BY <1>3, <2>1, <2>2, <2>3 DEF HandleTriggerEvent, TypeOK
<1>4. ASSUME HandleRead PROVE TypeOK'
  <2>1. connMutex' \in [Conns -> Threads \cup {NoThread}]
    BY <1>4, ThreadsOf DEF HandleRead, TypeOK
  <2>2. pc' \in [Threads -> LoopPcs \cup WorkerPcs] /\ serving' \in Conns \cup {NoConn}
    BY <1>4, Labels DEF HandleRead, TypeOK, Goto
  <2>. QED
    BY <1>4, <2>1, <2>2 DEF HandleRead, TypeOK
<1>5. ASSUME HandleError PROVE TypeOK'
  BY <1>5, ConstantsAssumption, Labels, ThreadsOf DEF HandleError, Goto, TypeOK
<1>6. ASSUME OtherRequest PROVE TypeOK'
  BY <1>6, ConstantsAssumption, Labels, ThreadsOf DEF OtherRequest, Goto, TypeOK
<1>7. ASSUME Setup PROVE TypeOK'
  <2>1. rtp' \in [Conns -> Rtp]
    <3>1. serving \in Conns /\ rtp[serving] \in Rtp
      BY <1>7 DEF Setup, LoopServes, TypeOK
    <3>2. \A mode \in Supported(serving) :
            [rtp[serving] EXCEPT !.mode = mode, !.setup = TRUE] \in Rtp
      BY <3>1, ConstantsAssumption DEF Supported, Rtp
    <3>3. ASSUME NEW mode \in Supported(serving),
                 rtp' = [rtp EXCEPT ![serving].mode = mode, ![serving].setup = TRUE]
          PROVE  rtp' \in [Conns -> Rtp]
      BY <3>1, <3>2, <3>3 DEF TypeOK
    <3>. QED
      BY <1>7, <3>3 DEF Setup, TypeOK
  <2>2. pc' \in [Threads -> LoopPcs \cup WorkerPcs] /\ serving' \in Conns \cup {NoConn}
    BY <1>7, Labels DEF Setup, TypeOK, Goto
  <2>. QED
    BY <1>7, <2>1, <2>2 DEF Setup, TypeOK
<1>8. ASSUME Play PROVE TypeOK'
  <2>1. rtp' \in [Conns -> Rtp]
    <3>1. serving \in Conns /\ rtp[serving] \in Rtp
      BY <1>8 DEF Play, LoopServes, TypeOK
    <3>2. [rtp[serving] EXCEPT !.play = @ \/ rtp[serving].setup] \in Rtp
      BY <3>1, RtpUpdate
    <3>. QED
      BY <1>8, <3>1, <3>2 DEF Play, TypeOK
  <2>2. pc' \in [Threads -> LoopPcs \cup WorkerPcs] /\ serving' \in Conns \cup {NoConn}
    BY <1>8, Labels DEF Play, TypeOK, Goto, AnswerIfDescribed
  <2>. QED
    BY <1>8, <2>1, <2>2 DEF Play, TypeOK
<1>9. ASSUME Teardown PROVE TypeOK'
  <2>1. rtp' \in [Conns -> Rtp]
    <3>1. serving \in Conns /\ rtp[serving] \in Rtp
      BY <1>9 DEF Teardown, LoopServes, TypeOK
    <3>2. [rtp[serving] EXCEPT !.closed = @ \/ rtp[serving].made,
                               !.play = @ /\ rtp[serving].closed] \in Rtp
      BY <3>1, RtpUpdate2
    <3>. QED
      BY <1>9, <3>1, <3>2 DEF Teardown, TypeOK
  <2>2. pc' \in [Threads -> LoopPcs \cup WorkerPcs] /\ serving' \in Conns \cup {NoConn}
    BY <1>9, Labels DEF Teardown, TypeOK, Goto, AnswerIfDescribed
  <2>. QED
    BY <1>9, <2>1, <2>2 DEF Teardown, TypeOK
<1>10. ASSUME GetParameter PROVE TypeOK'
  BY <1>10, ConstantsAssumption, Labels, ThreadsOf DEF GetParameter, Goto, TypeOK,
     AnswerIfDescribed
<1>11. ASSUME NEW s \in Sessions \cup {NoSession}, Describe(s) PROVE TypeOK'
  <2>1. rtp' \in [Conns -> Rtp]
    <3>1. rtp' = [rtp EXCEPT ![serving].made = TRUE]
      BY <1>11 DEF Describe
    <3>2. CASE serving \in Conns
      <4>1. [rtp[serving] EXCEPT !.made = TRUE] \in Rtp
        BY <3>2, RtpUpdate DEF TypeOK
      <4>. QED
        BY <3>1, <4>1 DEF TypeOK
    <3>3. CASE serving \notin Conns
      BY <3>1, <3>3 DEF TypeOK
    <3>. QED
      BY <3>2, <3>3
  <2>2. pc' \in [Threads -> LoopPcs \cup WorkerPcs] /\ serving' \in Conns \cup {NoConn}
    BY <1>11, Labels DEF Describe, TypeOK, Goto
  <2>3. /\ sessionId' \in [Conns -> Sessions \cup {NoSession}]
        /\ target' \in [Threads -> Sessions \cup {NoSession}]
    BY <1>11 DEF Describe, TypeOK
  <2>. QED
    BY <1>11, <2>1, <2>2, <2>3 DEF Describe, TypeOK
<1>12. ASSUME AddClient PROVE TypeOK'
  <2>1. target[Loop] \in Sessions /\ serving \in Conns
    BY <1>12 DEF AddClient, LoopServes, AddsToSession
  <2>2. clients' \in [Sessions -> [Fds -> Conns \cup {NoConn}]]
    <3>1. CASE ~Unknown(target[Loop], fdOf[serving])
      BY <1>12, <3>1 DEF AddClient, TypeOK
    <3>2. CASE Unknown(target[Loop], fdOf[serving])
      <4>. DEFINE old == clients[target[Loop]]
                  new == [fd \in Fds |->
                            CASE fd = fdOf[serving] -> serving
                              [] fd # fdOf[serving] /\ old[fd] # NoConn /\ Live(old[fd]) -> old[fd]
                              [] OTHER -> NoConn]
      <4>1. old \in [Fds -> Conns \cup {NoConn}]
        BY <2>1 DEF TypeOK
      <4>2. new \in [Fds -> Conns \cup {NoConn}]
        BY <2>1, <4>1
      <4>3. clients' = [clients EXCEPT ![target[Loop]] = new]
        BY <1>12, <3>2 DEF AddClient
      <4>. HIDE DEF new
      <4>. QED
        BY <4>2, <4>3 DEF TypeOK
    <3>. QED
      BY <3>1, <3>2
  <2>3. handlers' \subseteq Workers /\ running' \subseteq Workers
    BY <1>12, <2>1 DEF AddClient, TypeOK, Workers
  <2>4. pc' \in [Threads -> LoopPcs \cup WorkerPcs]
    BY <1>12, Labels DEF AddClient, TypeOK
  <2>5. target' \in [Threads -> Sessions \cup {NoSession}]
    BY <1>12 DEF AddClient, TypeOK
  <2>. QED
    BY <1>12, <2>1, <2>2, <2>3, <2>4, <2>5 DEF AddClient, TypeOK
<1>13. ASSUME NEW t \in Threads, SendCheck(t) PROVE TypeOK'
  BY <1>13, ConstantsAssumption, Labels, ThreadsOf, WorkingConn DEF SendCheck, Goto,
     TypeOK, Resume
<1>14. ASSUME NEW t \in Threads, SendAppend(t) PROVE TypeOK'
  BY <1>14, ConstantsAssumption, Labels, ThreadsOf DEF SendAppend, Goto, TypeOK
<1>15. ASSUME NEW t \in Threads, HandleWrite(t) PROVE TypeOK'
  <2>1. connMutex' \in [Conns -> Threads \cup {NoThread}]
    BY <1>15 DEF HandleWrite, TypeOK
  <2>2. pc' \in [Threads -> LoopPcs \cup WorkerPcs] /\ serving' \in Conns \cup {NoConn}
    BY <1>15, Labels DEF HandleWrite, TypeOK, Goto, Resume
  <2>. QED
    BY <1>15, <2>1, <2>2 DEF HandleWrite, TypeOK
<1>16. ASSUME NEW t \in Threads, CloseTest(t) PROVE TypeOK'
  <2>1. connMutex' \in [Conns -> Threads \cup {NoThread}]
    BY <1>16 DEF CloseTest, TypeOK, Unlock
  <2>2. pc' \in [Threads -> LoopPcs \cup WorkerPcs] /\ serving' \in Conns \cup {NoConn}
    BY <1>16, Labels DEF CloseTest, TypeOK, Goto, Resume
  <2>. QED
    BY <1>16, <2>1, <2>2 DEF CloseTest, TypeOK
<1>17. ASSUME NEW t \in Threads, CloseMark(t) PROVE TypeOK'
  BY <1>17, ConstantsAssumption, Labels, ThreadsOf, WorkingConn DEF CloseMark, Goto, TypeOK
<1>18. ASSUME NEW t \in Threads, RemoveClient(t) PROVE TypeOK'
  <2>1. clients' \in [Sessions -> [Fds -> Conns \cup {NoConn}]]
    <3>1. EraseEntry(t) \in [Sessions -> [Fds -> Conns \cup {NoConn}]]
      BY DEF TypeOK, EraseEntry
    <3>. QED
      BY <1>18, <3>1 DEF RemoveClient, TypeOK
  <2>2. running' \subseteq Workers /\ mapMutex' \in [Sessions -> Threads \cup {NoThread}]
    BY <1>18 DEF RemoveClient, TypeOK, TellToStop
  <2>3. pc' \in [Threads -> LoopPcs \cup WorkerPcs] /\ serving' \in Conns \cup {NoConn}
    BY <1>18, Labels DEF RemoveClient, TypeOK, Goto
  <2>. QED
    BY <1>18, <2>1, <2>2, <2>3 DEF RemoveClient, TypeOK, Goto
<1>19. ASSUME NEW t \in Threads, JoinHandler(t) PROVE TypeOK'
  BY <1>19, ConstantsAssumption, Labels, ThreadsOf DEF JoinHandler, Goto, TypeOK, EraseEntry
<1>20. ASSUME NEW t \in Threads, JoinSelf(t) PROVE TypeOK'
  BY <1>20, ConstantsAssumption, Labels, ThreadsOf DEF JoinSelf, Goto, TypeOK
<1>21. ASSUME NEW t \in Threads, Disconnected(t) PROVE TypeOK'
  BY <1>21, ConstantsAssumption, Labels, ThreadsOf, WorkingConn, NewEvents DEF
     Disconnected, Goto, TypeOK, QueueRemoval, Unlock, Resume
<1>22. ASSUME NEW w \in Workers, OpenVideo(w) PROVE TypeOK'
  BY <1>22, ConstantsAssumption, Labels, ThreadsOf DEF OpenVideo, Goto, TypeOK
<1>23. ASSUME NEW w \in Workers, CheckRunning(w) PROVE TypeOK'
  BY <1>23, ConstantsAssumption, Labels, ThreadsOf DEF CheckRunning, Goto, TypeOK
<1>24. ASSUME NEW w \in Workers, EndOfFile(w) PROVE TypeOK'
  BY <1>24, ConstantsAssumption, Labels, ThreadsOf DEF EndOfFile, Goto, TypeOK
<1>25. ASSUME NEW w \in Workers, SendFrame(w) PROVE TypeOK'
  <2>1. rtp' \in [Conns -> Rtp]
    <3>1. w[2] \in Conns /\ rtp[w[2]] \in Rtp
      BY DEF Workers, TypeOK
    <3>2. [rtp[w[2]] EXCEPT !.closed = TRUE, !.play = FALSE] \in Rtp
      BY <3>1, RtpUpdate2
    <3>. QED
      BY <1>25, <3>1, <3>2 DEF SendFrame, TypeOK
  <2>2. pc' \in [Threads -> LoopPcs \cup WorkerPcs] /\ serving' \in Conns \cup {NoConn}
    BY <1>25, Labels DEF SendFrame, TypeOK, Goto
  <2>. QED
    BY <1>25, <2>1, <2>2 DEF SendFrame, TypeOK
<1>26. ASSUME Stop PROVE TypeOK'
  BY <1>26, ConstantsAssumption, Labels, ThreadsOf DEF Stop, Goto, TypeOK
<1>27. ASSUME StopStep PROVE TypeOK'
  BY <1>27, ConstantsAssumption, Labels, ThreadsOf DEF StopStep, Goto, TypeOK
<1>28. ASSUME NEW c \in Conns, StopDisconnect(c) PROVE TypeOK'
  BY <1>28, ConstantsAssumption, Labels, ThreadsOf, NewEvents DEF StopDisconnect, Goto,
     TypeOK, StopEvent
<1>. QED
  BY <1>1, <1>2, <1>3, <1>4, <1>5, <1>6, <1>7, <1>8, <1>9, <1>10, <1>11, <1>12, <1>13,
     <1>14, <1>15, <1>16, <1>17, <1>18, <1>19, <1>20, <1>21, <1>22, <1>23, <1>24, <1>25,
     <1>26, <1>27, <1>28 DEF Next, LoopStep, Request, ConnStep, WorkerStep

(* Which steps set fdOf, connections, triggers and serving; all the others *)
(* leave them alone.                                                       *)
LEMMA NetStep ==
  ASSUME Next
  PROVE  /\ (\E c \in Conns : Accept(c)) \/ fdOf' = fdOf
         /\ (\E c \in Conns : Accept(c)) \/ HandleTriggerEvent \/ connections' = connections
         /\ \/ HandleTriggerEvent \/ (\E t \in Threads : Disconnected(t))
            \/ (\E c \in Conns : StopDisconnect(c)) \/ triggers' = triggers
<1>. USE DEF netVars, sessionVars, stopVars, requestUnchanged, workerUnchanged, stopUnchanged
<1>1. CASE LoopStep \/ (\E c \in Conns : HandleEvent(c)) \/ Stop \/ StopStep
  BY <1>1 DEF LoopStep, Request, HandleEvent, Stop, StopStep, HandleRead, HandleError,
     OtherRequest, Setup, Play, Teardown, GetParameter, Describe, AddClient
<1>2. CASE \E t \in Threads : ConnStep(t)
  BY <1>2 DEF ConnStep, SendCheck, SendAppend, HandleWrite, CloseTest, CloseMark,
     RemoveClient, JoinHandler, JoinSelf, Disconnected
<1>3. CASE \E w \in Workers : WorkerStep(w)
  BY <1>3 DEF WorkerStep, OpenVideo, CheckRunning, EndOfFile, SendFrame
<1>4. CASE \E c \in Conns : Accept(c) \/ StopDisconnect(c)
  BY <1>4 DEF Accept, StopDisconnect
<1>5. CASE HandleTriggerEvent
  BY <1>5 DEF HandleTriggerEvent
<1>. QED
  BY <1>1, <1>2, <1>3, <1>4, <1>5 DEF Next

(* A connection keeps the descriptor it was accepted on.                   *)
LEMMA AcceptedStays ==
  ASSUME TypeOK, Next, NEW c \in Conns, fdOf[c] # NoFd
  PROVE  fdOf'[c] = fdOf[c]
BY NetStep DEF Accept, TypeOK

(* Every step keeps RegisteredIsAccepted: connections_ holds a connection  *)
(* under the descriptor it was accepted on.                                *)
LEMMA RegisteredStep ==
  ASSUME Typed, Next
  PROVE  RegisteredIsAccepted'
<1>1. CASE \E c \in Conns : Accept(c)
  BY <1>1, ConstantsAssumption DEF Accept, FreeFds, Typed, TypeOK, RegisteredIsAccepted
<1>2. CASE HandleTriggerEvent
  BY <1>2, ConstantsAssumption, TriggerKinds DEF HandleTriggerEvent, Typed, TypeOK,
     RegisteredIsAccepted
<1>3. CASE fdOf' = fdOf /\ connections' = connections
  BY <1>3 DEF Typed, RegisteredIsAccepted
<1>. QED
  BY <1>1, <1>2, <1>3, NetStep

(* Every step keeps QueuedIsAccepted: only accepted connections are        *)
(* disconnected.                                                           *)
LEMMA QueuedStep ==
  ASSUME Typed, Next
  PROVE  QueuedIsAccepted'
<1>1. \A c \in Conns : fdOf[c] # NoFd => fdOf'[c] # NoFd
  BY AcceptedStays DEF Typed
<1>2. CASE triggers' = triggers
  BY <1>1, <1>2, TriggerKinds DEF QueuedIsAccepted, Typed, TypeOK, Accepted
<1>3. CASE HandleTriggerEvent
  BY <1>1, <1>3, TriggerKinds DEF HandleTriggerEvent, QueuedIsAccepted, Typed, TypeOK, Accepted
<1>4. CASE \E t \in Threads : Disconnected(t)
  BY <1>1, <1>4, TriggerKinds DEF Disconnected, QueueRemoval, RemoveEvent,
     QueuedIsAccepted, Typed, TypeOK, Accepted
<1>5. CASE \E c \in Conns : StopDisconnect(c)
  <2>. PICK c \in Conns : StopDisconnect(c)
    BY <1>5
  <2>1. Accepted(c) /\ fdOf' = fdOf
    BY ConstantsAssumption DEF StopDisconnect, stopUnchanged, Unswept, Typed, TypeOK,
       RegisteredIsAccepted, Accepted
  <2>2. triggers' = Append(triggers, CloseEvent(c))
    BY DEF StopDisconnect, StopEvent
  <2>. QED
    BY <2>1, <2>2 DEF CloseEvent, QueuedIsAccepted, Typed, TypeOK, Accepted
<1>. QED
  BY <1>2, <1>3, <1>4, <1>5, NetStep

(* A started thread goes on working for the connection it works for.       *)
Serves(t) == pc[t] \notin {"idle", "none"}

(* A thread that goes on working for its connection keeps them.            *)
LEMMA GotoServes ==
  ASSUME Typed, fdOf' = fdOf, NEW t \in Threads, Serves(t),
         NEW label, label # "addClient", Goto(t, label),
         \A u \in Threads : u # t => target'[u] = target[u]
  PROVE  LoopServes' /\ StartedIsAccepted' /\ AddsToSession'
<1>1. ConnOf(t) \in Conns /\ Accepted(ConnOf(t))
  BY WorkingConn, ConstantsAssumption DEF Serves, Accepted
<1>2. CASE t = Loop
  BY <1>1, <1>2, ConstantsAssumption DEF Goto, ConnOf, Accepted, Typed, TypeOK, LoopServes,
     StartedIsAccepted, AddsToSession, Threads, Workers
<1>3. CASE t \in Workers
  <2>1. t # Loop /\ t[2] \in Conns /\ Accepted(t[2]) /\ serving' = serving
    BY <1>1, <1>3, ConstantsAssumption DEF Goto, ConnOf, Workers
  <2>2. LoopServes'
    BY <2>1, ThreadsOf DEF Goto, Accepted, Typed, TypeOK, LoopServes
  <2>3. StartedIsAccepted'
    BY <2>1, ThreadsOf DEF Goto, Accepted, Typed, TypeOK, StartedIsAccepted
  <2>4. AddsToSession'
    BY <2>1, ThreadsOf DEF Goto, Typed, TypeOK, AddsToSession
  <2>. QED
    BY <2>2, <2>3, <2>4
<1>. QED
  BY <1>2, <1>3 DEF Threads

(* Every step keeps the three facts about who works for whom.              *)
LEMMA ServingStep ==
  ASSUME Typed, Next
  PROVE  LoopServes' /\ StartedIsAccepted' /\ AddsToSession'
<1>. USE DEF netVars, sessionVars, stopVars, requestUnchanged, workerUnchanged, stopUnchanged,
             Requesting
<1>1. CASE /\ \A c \in Conns : fdOf[c] # NoFd => fdOf'[c] # NoFd
           /\ pc' = pc /\ serving' = serving /\ target' = target
  BY <1>1 DEF Typed, TypeOK, LoopServes, StartedIsAccepted, AddsToSession, Accepted, Workers
<1>2. ASSUME NEW c \in Conns, Accepted(c), pc[Loop] = "idle", serving' = c,
             NEW label, label # "addClient", pc' = [pc EXCEPT ![Loop] = label],
             fdOf' = fdOf, target' = target
      PROVE  LoopServes' /\ StartedIsAccepted' /\ AddsToSession'
  BY <1>2, ConstantsAssumption, ThreadsOf
     DEF Typed, TypeOK, LoopServes, StartedIsAccepted, AddsToSession, Accepted, Workers
<1>3. ASSUME NEW c \in Conns, HandleEvent(c)
      PROVE  LoopServes' /\ StartedIsAccepted' /\ AddsToSession'
  BY <1>2, <1>3 DEF HandleEvent, Accepted
<1>4. CASE HandleTriggerEvent
  <2>1. CASE Head(triggers).kind = "remove"
    BY <1>1, <1>4, <2>1 DEF HandleTriggerEvent
  <2>2. CASE Head(triggers).kind = "close"
    <3>1. Head(triggers).conn \in Conns /\ Accepted(Head(triggers).conn)
      BY <1>4, <2>2, TriggerKinds DEF HandleTriggerEvent, Typed, TypeOK, QueuedIsAccepted
    <3>. QED
      BY <1>2, <1>4, <2>2, <3>1 DEF HandleTriggerEvent
  <2>. QED
    BY <1>4, <2>1, <2>2 DEF HandleTriggerEvent
<1>5. CASE HandleRead \/ HandleError \/ OtherRequest \/ Setup \/ Play \/ Teardown \/ GetParameter
  <2>1. Serves(Loop) /\ fdOf' = fdOf /\ target' = target
    BY <1>5 DEF Serves, HandleRead, HandleError, OtherRequest, Setup, Play, Teardown,
       GetParameter
  <2>2. \E label \in {"idle", "request", "close", "send", "error"} : Goto(Loop, label)
    BY <1>5 DEF HandleRead, HandleError, OtherRequest, Setup, Play, Teardown, GetParameter,
       AnswerIfDescribed
  <2>. QED
    BY <2>1, <2>2, GotoServes, ThreadsOf
<1>6. ASSUME NEW s \in Sessions \cup {NoSession}, Describe(s)
      PROVE  LoopServes' /\ StartedIsAccepted' /\ AddsToSession'
  <2>1. CASE s = NoSession
    <3>1. Serves(Loop) /\ fdOf' = fdOf /\ target' = target /\ Goto(Loop, "send")
      BY <1>6, <2>1 DEF Serves, Describe
    <3>. QED
      BY <3>1, GotoServes, ThreadsOf
  <2>2. CASE s # NoSession
    <3>1. /\ pc' = [pc EXCEPT ![Loop] = "addClient"] /\ serving' = serving /\ fdOf' = fdOf
          /\ target' = [target EXCEPT ![Loop] = s] /\ pc[Loop] = "request"
      BY <1>6, <2>2 DEF Describe, Goto
    <3>. QED
      BY <2>2, <3>1, ThreadsOf, ConstantsAssumption
         DEF Typed, TypeOK, LoopServes, StartedIsAccepted, AddsToSession, Accepted, Workers
  <2>. QED
    BY <2>1, <2>2
<1>7. CASE AddClient
  <2>1. serving \in Conns /\ Accepted(serving) /\ target[Loop] \in Sessions
    BY <1>7 DEF AddClient, Typed, LoopServes, AddsToSession
  <2>2. /\ serving' = serving /\ fdOf' = fdOf /\ pc'[Loop] = "send"
        /\ \A w \in Workers : pc'[w] = pc[w] \/ w = <<target[Loop], serving>>
    BY <1>7, ConstantsAssumption, ThreadsOf DEF AddClient, Typed, TypeOK, Workers
  <2>. QED
    BY <2>1, <2>2 DEF Typed, LoopServes, StartedIsAccepted, AddsToSession, Accepted, Workers
<1>8. ASSUME NEW t \in Threads, ConnStep(t), ~JoinSelf(t)
      PROVE  LoopServes' /\ StartedIsAccepted' /\ AddsToSession'
  <2>1. Serves(t) /\ fdOf' = fdOf /\ \A u \in Threads : u # t => target'[u] = target[u]
    BY <1>8 DEF Serves, ConnStep, SendCheck, SendAppend, HandleWrite, CloseTest, CloseMark,
       RemoveClient, JoinHandler, Disconnected, Typed, TypeOK
  <2>2. \E label \in {"idle", "check"} \cup SendPcs \cup ClosePcs : Goto(t, label)
    BY <1>8 DEF ConnStep, SendCheck, SendAppend, HandleWrite, CloseTest, CloseMark,
       RemoveClient, JoinHandler, Disconnected, Resume, SendPcs, ClosePcs
  <2>. QED
    BY <2>1, <2>2, GotoServes DEF SendPcs, ClosePcs
<1>9. ASSUME NEW w \in Workers, WorkerStep(w)
      PROVE  LoopServes' /\ StartedIsAccepted' /\ AddsToSession'
  <2>1. Serves(w) /\ fdOf' = fdOf /\ target' = target
    BY <1>9 DEF Serves, WorkerStep, OpenVideo, CheckRunning, EndOfFile, SendFrame
  <2>2. \E label \in {"check", "frame", "send"} \cup EndPcs : Goto(w, label)
    BY <1>9 DEF WorkerStep, OpenVideo, CheckRunning, EndOfFile, SendFrame, EndPcs
  <2>. QED
    BY <2>1, <2>2, GotoServes, ThreadsOf DEF EndPcs
<1>10. CASE \/ \E c \in Conns : Accept(c) \/ StopDisconnect(c)
            \/ \E t \in Threads : JoinSelf(t)
            \/ Stop \/ StopStep
  <2>1. pc' = pc /\ serving' = serving /\ target' = target
    BY <1>10 DEF Accept, StopDisconnect, JoinSelf, Stop, StopStep
  <2>. QED
    BY <1>1, <2>1, AcceptedStays DEF Typed
<1>. QED
  BY <1>3, <1>4, <1>5, <1>6, <1>7, <1>8, <1>9, <1>10 DEF Next, LoopStep, Request

(* A step that changes nothing keeps everything.                           *)
LEMMA TypedStutter ==
  ASSUME Typed, UNCHANGED vars
  PROVE  Typed'
BY DEF vars, netVars, sessionVars, stopVars, Typed, TypeOK, RegisteredIsAccepted, LoopServes,
   StartedIsAccepted, QueuedIsAccepted, AddsToSession, Accepted

(* Theorem: whatever happens, connections_ holds a connection under its    *)
(* own descriptor only, threads work for accepted connections, and         *)
(* AddClient runs on a session that LookMediaSession has found             *)
(* (RtspConnection.cpp 243-257, TcpServer.cpp 88-98).                      *)
THEOREM AlwaysTyped == Spec => []Typed
<1>1. Typed /\ [Next]_vars => Typed'
  BY TypeStep, RegisteredStep, QueuedStep, ServingStep, TypedStutter DEF Typed
<1>. QED
  BY <1>1, InitTyped, PTL DEF Spec

(* Theorem: every reachable state has the types of TypeOK.                 *)
THEOREM TypeCorrect == Spec => []TypeOK
BY AlwaysTyped, PTL DEF Typed
-----------------------------------------------------------------------------
(* Who moves: a step of one thread leaves the other threads where they are, *)
(* except that AddClient starts a worker.                                   *)
LEMMA WorkerMoves ==
  ASSUME Typed, Next, NEW w \in Workers
  PROVE  \/ pc'[w] = pc[w]
         \/ ConnStep(w) \/ WorkerStep(w)
         \/ AddClient /\ w = <<target[Loop], serving>> /\ pc'[w] = "open"
<1>. USE DEF netVars, sessionVars, stopVars, requestUnchanged, workerUnchanged, stopUnchanged
<1>1. w # Loop /\ w \in Threads
  BY ConstantsAssumption DEF Workers, Threads
<1>2. CASE AddClient
  BY <1>1, <1>2, ThreadsOf DEF AddClient, Typed, TypeOK
<1>3. CASE \/ \E c \in Conns : Accept(c) \/ HandleEvent(c) \/ StopDisconnect(c)
           \/ HandleTriggerEvent \/ HandleRead \/ HandleError \/ Request
           \/ Stop \/ StopStep
  BY <1>1, <1>3, ThreadsOf
     DEF Accept, HandleEvent, StopDisconnect, HandleTriggerEvent, HandleRead, HandleError,
         Request, OtherRequest, Setup, Play, Teardown, GetParameter, Describe, Stop, StopStep,
         Goto, AnswerIfDescribed, Typed, TypeOK
<1>4. ASSUME NEW t \in Threads, ConnStep(t), t # w
      PROVE  pc'[w] = pc[w]
  BY <1>1, <1>4 DEF ConnStep, SendCheck, SendAppend, HandleWrite, CloseTest, CloseMark,
     RemoveClient, JoinHandler, JoinSelf, Disconnected, Goto, Typed, TypeOK
<1>5. ASSUME NEW v \in Workers, WorkerStep(v), v # w
      PROVE  pc'[w] = pc[w]
  BY <1>1, <1>5, ThreadsOf DEF WorkerStep, OpenVideo, CheckRunning, EndOfFile, SendFrame,
     Goto, Typed, TypeOK
<1>. QED
  BY <1>2, <1>3, <1>4, <1>5 DEF Next, LoopStep

(* Which steps change the handlers.                                        *)
LEMMA HandlerSteps ==
  ASSUME Next
  PROVE  handlers' = handlers \/ AddClient \/ \E t \in Threads : JoinHandler(t)
<1>. USE DEF netVars, sessionVars, stopVars, requestUnchanged, workerUnchanged, stopUnchanged
<1>1. CASE \/ \E c \in Conns : Accept(c) \/ HandleEvent(c) \/ StopDisconnect(c)
           \/ HandleTriggerEvent \/ HandleRead \/ HandleError \/ Request
           \/ Stop \/ StopStep
  BY <1>1 DEF Accept, HandleEvent, StopDisconnect, HandleTriggerEvent, HandleRead, HandleError,
         Request, OtherRequest, Setup, Play, Teardown, GetParameter, Describe, Stop, StopStep
<1>2. CASE \E t \in Threads : ConnStep(t)
  BY <1>2 DEF ConnStep, SendCheck, SendAppend, HandleWrite, CloseTest, CloseMark,
     RemoveClient, JoinSelf, Disconnected
<1>3. CASE \E w \in Workers : WorkerStep(w)
  BY <1>3 DEF WorkerStep, OpenVideo, CheckRunning, EndOfFile, SendFrame
<1>. QED
  BY <1>1, <1>2, <1>3 DEF Next, LoopStep

(* Theorem: whatever the transports, the sessions and the order of the     *)
(* steps, onDemandLoop never works on a handler that the disconnected      *)
(* callback has deleted.                                                   *)
THEOREM HandlerSafe == Spec => []HandlerOutlivesThread
<1>1. Init => HandlerOutlivesThread
  BY ConstantsAssumption DEF Init, HandlerOutlivesThread, Alive, Threads, Workers
<1>2. ASSUME Typed, HandlerOutlivesThread, [Next]_vars
      PROVE  HandlerOutlivesThread'
  <2>1. CASE UNCHANGED vars
    BY <2>1, <1>2 DEF vars, sessionVars, HandlerOutlivesThread, Alive
  <2>2. CASE Next
    <3>. SUFFICES ASSUME NEW w \in Workers, Alive(w)' PROVE w \in handlers'
      BY DEF HandlerOutlivesThread
    <3>1. Alive(w) \/ (AddClient /\ w = <<target[Loop], serving>>)
      BY <1>2, <2>2, WorkerMoves DEF Alive, EndPcs, ConnStep, SendCheck, SendAppend,
         HandleWrite, CloseTest, CloseMark, RemoveClient, JoinHandler, JoinSelf, Disconnected,
         WorkerStep, OpenVideo, CheckRunning, EndOfFile, SendFrame
    <3>2. CASE AddClient
      <4>1. CASE Unknown(target[Loop], fdOf[serving])
        BY <1>2, <3>1, <3>2, <4>1 DEF HandlerOutlivesThread, AddClient
      <4>2. CASE ~Unknown(target[Loop], fdOf[serving])
        <5>1. pc' = [pc EXCEPT ![Loop] = "send"] /\ handlers' = handlers /\ w # Loop
          BY <3>2, <4>2, ConstantsAssumption DEF AddClient, Workers
        <5>. QED
          BY <1>2, <5>1, ThreadsOf DEF HandlerOutlivesThread, Alive, Typed, TypeOK
      <4>. QED
        BY <4>1, <4>2
    <3>3. CASE handlers' = handlers
      BY <1>2, <3>1, <3>2, <3>3 DEF HandlerOutlivesThread
    <3>4. ASSUME NEW t \in Threads, JoinHandler(t)
          PROVE  w \in handlers'
      BY <1>2, <3>1, <3>4 DEF HandlerOutlivesThread, Alive, JoinHandler, Ended, AddClient,
         Goto, Typed, TypeOK, ConnOf
    <3>. QED
      BY <2>2, <3>2, <3>3, <3>4, HandlerSteps
  <2>. QED
    BY <1>2, <2>1, <2>2
<1>. QED
  BY <1>1, <1>2, AlwaysTyped, PTL DEF Spec

(* A thread that moves leaves the others where they are, and goes on       *)
(* working for its connection unless the loop becomes idle.                *)
Stays(t) == pc'[t] = pc[t] /\ ConnOf(t)' = ConnOf(t)

(* A thread that goes on to another step moves, the others stay.           *)
LEMMA GotoMoves ==
  ASSUME Typed, NEW t \in Threads, NEW label, Goto(t, label)
  PROVE  /\ pc'[t] = label
         /\ label # "idle" => ConnOf(t)' = ConnOf(t)
         /\ \A u \in Threads : u # t => Stays(u)
BY DEF Goto, Stays, ConnOf, Typed, TypeOK
-----------------------------------------------------------------------------
(* When no client asks for RTP over TCP, a worker never sends on or closes *)
(* a TCP connection.                                                       *)
UdpPcs == {"none", "open", "check", "frame"} \cup EndPcs

OnlyUdp == \A c \in Conns : rtp[c].mode = "udp"
WorkersOnlyStream == \A w \in Workers : pc[w] \in UdpPcs

UdpServer == OnlyUdp /\ WorkersOnlyStream

(* A server whose clients cannot ask for TCP starts as such.               *)
LEMMA InitUdp == Init => UdpServer
<1>. SUFFICES ASSUME Init PROVE UdpServer
  OBVIOUS
<1>1. OnlyUdp
  BY DEF Init, OnlyUdp, NoRtp
<1>2. pc[Loop] = "idle" /\ \A w \in Workers : pc[w] = "none"
  BY ConstantsAssumption, ThreadsOf DEF Init, Workers
<1>. QED
  BY <1>1, <1>2 DEF UdpServer, WorkersOnlyStream, UdpPcs

(* Nobody asks for RTP over the RTSP connection.                           *)
NoTcp == \A c \in Conns : "tcp" \notin Transports[c]

(* Without a SETUP for TCP no client streams over TCP.                     *)
LEMMA OnlyUdpStep ==
  ASSUME NoTcp, Typed, OnlyUdp, [Next]_vars
  PROVE  OnlyUdp'
<1>. USE DEF netVars, sessionVars, stopVars, requestUnchanged, workerUnchanged, stopUnchanged
<1>1. rtp \in [Conns -> Rtp]
  BY DEF Typed, TypeOK
<1>2. CASE Setup
  <2>1. ASSUME NEW mode \in Supported(serving),
               rtp' = [rtp EXCEPT ![serving].mode = mode, ![serving].setup = TRUE]
        PROVE  OnlyUdp'
    <3>1. serving \in Conns
      BY <1>2 DEF Setup, Requesting, LoopServes, Typed, TypeOK
    <3>2. mode = "udp"
      BY <3>1, ConstantsAssumption DEF Supported, NoTcp
    <3>. QED
      BY <1>1, <2>1, <3>2 DEF OnlyUdp, Rtp
  <2>2. CASE rtp' = rtp
    BY <2>2 DEF OnlyUdp
  <2>. QED
    BY <1>2, <2>1, <2>2 DEF Setup
<1>3. CASE Play \/ Teardown \/ \E s \in Sessions \cup {NoSession} : Describe(s)
  BY <1>1, <1>3 DEF Play, Teardown, Describe, OnlyUdp, Rtp
<1>4. ASSUME NEW w \in Workers, SendFrame(w)
      PROVE  OnlyUdp'
  BY <1>1, <1>4 DEF SendFrame, OnlyUdp, Rtp, Workers
<1>5. CASE rtp' = rtp
  BY <1>5 DEF OnlyUdp
<1>6. CASE \/ \E c \in Conns : Accept(c) \/ HandleEvent(c) \/ StopDisconnect(c)
           \/ HandleTriggerEvent \/ HandleRead \/ HandleError \/ OtherRequest \/ GetParameter
           \/ AddClient \/ Stop \/ StopStep \/ UNCHANGED vars
  BY <1>5, <1>6 DEF Accept, HandleEvent, StopDisconnect, HandleTriggerEvent, HandleRead,
     HandleError, OtherRequest, GetParameter, AddClient, Stop, StopStep, vars
<1>7. CASE \E t \in Threads : ConnStep(t)
  BY <1>5, <1>7 DEF ConnStep, SendCheck, SendAppend, HandleWrite, CloseTest, CloseMark,
     RemoveClient, JoinHandler, JoinSelf, Disconnected
<1>8. ASSUME NEW w \in Workers, OpenVideo(w) \/ CheckRunning(w) \/ EndOfFile(w)
      PROVE  OnlyUdp'
  BY <1>5, <1>8 DEF OpenVideo, CheckRunning, EndOfFile
<1>. QED
  BY <1>2, <1>3, <1>4, <1>6, <1>7, <1>8 DEF Next, LoopStep, Request, WorkerStep

(* Then every step of a Send or a Close is the loop's.                     *)
LEMMA WorkersStreamStep ==
  ASSUME Typed, OnlyUdp, WorkersOnlyStream, [Next]_vars
  PROVE  WorkersOnlyStream' /\ \A w \in Workers : ~ConnStep(w)
<1>1. \A w \in Workers : ~ConnStep(w)
  BY DEF ConnStep, SendCheck, SendAppend, HandleWrite, CloseTest, CloseMark, RemoveClient,
     JoinHandler, JoinSelf, Disconnected, WorkersOnlyStream, UdpPcs, EndPcs
<1>2. CASE UNCHANGED vars
  BY <1>1, <1>2 DEF vars, WorkersOnlyStream
<1>3. ASSUME NEW w \in Workers, Next
      PROVE  pc'[w] \in UdpPcs
  <2>1. CASE pc'[w] = pc[w] \/ pc'[w] = "open"
    BY <2>1 DEF WorkersOnlyStream, UdpPcs
  <2>2. CASE WorkerStep(w)
    <3>1. ~OverTcp(w[2]) /\ w \in Threads
      BY DEF OnlyUdp, OverTcp, Workers, Threads
    <3>2. \E label \in {"check", "done", "frame", "refused"} : Goto(w, label)
      BY <2>2, <3>1 DEF WorkerStep, OpenVideo, CheckRunning, EndOfFile, SendFrame
    <3>. QED
      BY <3>1, <3>2, GotoMoves DEF UdpPcs, EndPcs
  <2>. QED
    BY <1>1, <1>3, <2>1, <2>2, WorkerMoves
<1>. QED
  BY <1>1, <1>2, <1>3 DEF WorkersOnlyStream

(* All of this holds for good when no client can ask for TCP.              *)
LEMMA AlwaysUdp == ASSUME NoTcp PROVE Spec => []UdpServer
<1>1. Typed /\ UdpServer /\ [Next]_vars => UdpServer'
  BY OnlyUdpStep, WorkersStreamStep DEF UdpServer
<1>. QED
  BY <1>1, InitUdp, AlwaysTyped, PTL DEF Spec

-----------------------------------------------------------------------------
(* At most one thread is inside a connection's Close.  So it is as long as *)
(* nobody runs TcpServer::Stop, since every other Close runs with the      *)
(* connection's mutex held; and when nobody asks for TCP, since then only  *)
(* the event loop closes connections, also those that Stop disconnects.    *)
StopsOverUdp == Stopping => NoTcp

OneCloses ==
  \A t, u \in Threads :
    pc[t] \in ClosePcs /\ pc[u] \in ClosePcs /\ ConnOf(t) = ConnOf(u) => t = u

NobodyStops == stop = "run" /\ \A i \in 1..Len(triggers) : triggers[i].kind = "remove"
CloserHoldsMutex == \A t \in Threads : pc[t] \in ClosePcs => connMutex[ConnOf(t)] = t

(* A thread that takes its connection's mutex to close it, or that gives   *)
(* the mutex back, leaves the others' alone.                               *)
LEMMA LockMoves ==
  ASSUME Typed, CloserHoldsMutex, NEW t \in Threads, ConnOf(t) \in Conns,
         NEW label, Goto(t, label),
         \/ /\ label = "close" /\ connMutex[ConnOf(t)] = NoThread
            /\ connMutex' = [connMutex EXCEPT ![ConnOf(t)] = t]
         \/ /\ label \in {"idle", "check"} /\ Unlock(ConnOf(t), t)
  PROVE  CloserHoldsMutex'
<1>. USE DEF ClosePcs
<1>1. /\ pc'[t] = label /\ (label # "idle" => ConnOf(t)' = ConnOf(t))
      /\ \A u \in Threads : u # t => pc'[u] = pc[u] /\ ConnOf(u)' = ConnOf(u)
  BY GotoMoves DEF Stays
<1>. SUFFICES ASSUME NEW u \in Threads, pc'[u] \in ClosePcs
              PROVE  connMutex'[ConnOf(u)'] = u
  BY DEF CloserHoldsMutex
<1>2. CASE u = t
  BY <1>1, <1>2 DEF CloserHoldsMutex, Typed, TypeOK
<1>3. CASE u # t
  <2>1. /\ pc[u] \in ClosePcs /\ ConnOf(u)' = ConnOf(u) /\ u # NoThread
        /\ ConnOf(u) \in Conns /\ connMutex[ConnOf(u)] = u
    BY <1>1, <1>3, WorkingConn, ConstantsAssumption DEF CloserHoldsMutex, Threads, Workers
  <2>2. connMutex'[ConnOf(u)] = connMutex[ConnOf(u)]
    BY <1>3, <2>1 DEF Unlock, Typed, TypeOK
  <2>. QED
    BY <2>1, <2>2
<1>. QED
  BY <1>2, <1>3

(* A step that leaves the mutexes alone starts no Close of a thread's own. *)
LEMMA LockStays ==
  ASSUME Typed, CloserHoldsMutex, connMutex' = connMutex,
         \A u \in Threads : \/ Stays(u) \/ pc'[u] \notin ClosePcs
                            \/ pc[u] \in ClosePcs /\ ConnOf(u)' = ConnOf(u)
  PROVE  CloserHoldsMutex'
BY DEF CloserHoldsMutex, Stays

(* Every step keeps CloserHoldsMutex, as long as nobody runs Stop: Close   *)
(* is only entered with the mutex, and left by giving it back.             *)
LEMMA CloserStep ==
  ASSUME Typed, NobodyStops, CloserHoldsMutex, ~Stopping, [Next]_vars
  PROVE  CloserHoldsMutex'
<1>. USE DEF netVars, sessionVars, stopVars, requestUnchanged, workerUnchanged, stopUnchanged
<1>1. ASSUME UNCHANGED <<pc, serving, connMutex>>
      PROVE  CloserHoldsMutex'
  BY <1>1, LockStays DEF Stays, ConnOf
<1>2. ASSUME NEW t \in Threads, NEW label, Goto(t, label), connMutex' = connMutex,
             label \in ClosePcs => pc[t] \in ClosePcs
      PROVE  CloserHoldsMutex'
  <2>1. "idle" \notin ClosePcs
    BY DEF ClosePcs
  <2>. QED
    BY <1>2, <2>1, GotoMoves, LockStays
<1>3. ASSUME NEW c \in Conns, HandleEvent(c)
      PROVE  CloserHoldsMutex'
  <2>1. pc'[Loop] \notin ClosePcs /\ \A u \in Threads : u # Loop => Stays(u)
    BY <1>3, ThreadsOf DEF HandleEvent, Stays, ConnOf, ClosePcs, Typed, TypeOK
  <2>. QED
    BY <1>3, <2>1, LockStays DEF HandleEvent
<1>4. CASE HandleTriggerEvent
  <2>1. Head(triggers).kind = "remove"
    BY <1>4 DEF HandleTriggerEvent, NobodyStops, Typed, TypeOK
  <2>. QED
    BY <1>1, <1>4, <2>1 DEF HandleTriggerEvent
<1>5. CASE HandleRead \/ HandleError
  <2>1. serving \in Conns /\ ConnOf(Loop) = serving
    BY <1>5 DEF HandleRead, HandleError, ConnOf, Typed, LoopServes
  <2>2. CASE connMutex' = connMutex /\ \E label \in {"idle", "request"} : Goto(Loop, label)
    BY <1>2, <2>2, ThreadsOf DEF ClosePcs
  <2>3. CASE /\ connMutex[serving] = NoThread /\ Goto(Loop, "close")
             /\ connMutex' = [connMutex EXCEPT ![serving] = Loop]
    BY <2>1, <2>3, LockMoves, ThreadsOf
  <2>. QED
    BY <1>5, <2>2, <2>3 DEF HandleRead, HandleError
<1>6. CASE Request
  <2>1. \E label \in {"send", "idle", "error", "addClient"} : Goto(Loop, label)
    BY <1>6 DEF Request, OtherRequest, Setup, Play, Teardown, GetParameter, Describe,
       AnswerIfDescribed
  <2>2. connMutex' = connMutex
    BY <1>6 DEF Request, OtherRequest, Setup, Play, Teardown, GetParameter, Describe
  <2>. QED
    BY <1>2, <2>1, <2>2, ThreadsOf DEF ClosePcs
<1>7. CASE AddClient
  <2>1. \A u \in Threads : Stays(u) \/ pc'[u] \in {"send", "open"}
    BY <1>7, ThreadsOf DEF AddClient, Stays, ConnOf, Typed, TypeOK
  <2>. QED
    BY <1>7, <2>1, LockStays DEF AddClient, ClosePcs
<1>8. ASSUME NEW t \in Threads, ConnStep(t)
      PROVE  CloserHoldsMutex'
  <2>1. CASE SendCheck(t) \/ SendAppend(t)
    BY <1>2, <2>1 DEF SendCheck, SendAppend, Resume, ClosePcs
  <2>2. CASE HandleWrite(t)
    <3>1. ConnOf(t) \in Conns
      BY <2>2, WorkingConn DEF HandleWrite
    <3>. QED
      BY <1>2, <2>2, <3>1, LockMoves DEF HandleWrite, Resume, ClosePcs
  <2>3. CASE CloseTest(t) \/ Disconnected(t)
    <3>1. ConnOf(t) \in Conns
      BY <2>3, WorkingConn DEF CloseTest, Disconnected
    <3>2. CASE Unlock(ConnOf(t), t) /\ Goto(t, Resume(t))
      BY <3>1, <3>2, LockMoves DEF Resume
    <3>. QED
      BY <1>2, <2>3, <3>2 DEF CloseTest, Disconnected, ClosePcs
  <2>4. CASE CloseMark(t) \/ RemoveClient(t) \/ JoinHandler(t)
    <3>1. pc[t] \in ClosePcs /\ connMutex' = connMutex
      BY <2>4 DEF CloseMark, RemoveClient, JoinHandler, ClosePcs
    <3>2. \E label : Goto(t, label)
      BY <2>4 DEF CloseMark, RemoveClient, JoinHandler
    <3>. QED
      BY <1>2, <3>1, <3>2
  <2>5. CASE JoinSelf(t)
    BY <1>1, <2>5 DEF JoinSelf
  <2>. QED
    BY <1>8, <2>1, <2>2, <2>3, <2>4, <2>5 DEF ConnStep
<1>9. ASSUME NEW w \in Workers, WorkerStep(w)
      PROVE  CloserHoldsMutex'
  <2>1. \E label \in {"check", "frame", "send", "done", "refused"} : Goto(w, label)
    BY <1>9 DEF WorkerStep, OpenVideo, CheckRunning, EndOfFile, SendFrame
  <2>2. connMutex' = connMutex
    BY <1>9 DEF WorkerStep, OpenVideo, CheckRunning, EndOfFile, SendFrame
  <2>. QED
    BY <1>2, <2>1, <2>2, ThreadsOf DEF ClosePcs
<1>10. CASE \/ (\E c \in Conns : Accept(c) \/ StopDisconnect(c))
            \/ Stop \/ StopStep \/ UNCHANGED vars
  BY <1>1, <1>10 DEF Accept, StopDisconnect, Stop, StopStep, vars
<1>. QED
  BY <1>3, <1>4, <1>5, <1>6, <1>7, <1>8, <1>9, <1>10 DEF Next, LoopStep

(* Without Stop nobody queues a Close.                                     *)
LEMMA NobodyStopsStep ==
  ASSUME Typed, NobodyStops, ~Stopping, [Next]_vars
  PROVE  NobodyStops'
<1>. USE DEF NobodyStops
<1>1. CASE UNCHANGED vars
  BY <1>1 DEF vars, netVars, stopVars
<1>2. CASE Next
  <2>1. stop' = stop
    <3>1. ~Stop /\ ~StopStep /\ \A c \in Conns : ~StopDisconnect(c)
      BY DEF Stop, StopStep, StopDisconnect
    <3>2. CASE LoopStep \/ HandleTriggerEvent \/ \E c \in Conns : Accept(c) \/ HandleEvent(c)
      BY <3>2 DEF LoopStep, Request, HandleEvent, HandleRead, HandleError, OtherRequest, Setup,
         Play, Teardown, GetParameter, Describe, AddClient, HandleTriggerEvent, Accept,
         requestUnchanged, stopVars
    <3>3. CASE \E t \in Threads : ConnStep(t)
      BY <3>3 DEF ConnStep, SendCheck, SendAppend, HandleWrite, CloseTest, CloseMark,
         RemoveClient, JoinHandler, JoinSelf, Disconnected, stopVars
    <3>4. CASE \E w \in Workers : WorkerStep(w)
      BY <3>4 DEF WorkerStep, OpenVideo, CheckRunning, EndOfFile, SendFrame, workerUnchanged,
         stopVars
    <3>. QED
      BY <1>2, <3>1, <3>2, <3>3, <3>4 DEF Next
  <2>2. \A c \in Conns : ~StopDisconnect(c)
    BY DEF StopDisconnect
  <2>3. CASE HandleTriggerEvent
    BY <2>1, <2>3 DEF HandleTriggerEvent, Typed, TypeOK
  <2>4. ASSUME NEW t \in Threads, Disconnected(t)
        PROVE  NobodyStops'
    BY <2>1, <2>4 DEF Disconnected, QueueRemoval, RemoveEvent, Typed, TypeOK
  <2>. QED
    BY <1>2, <2>1, <2>2, <2>3, <2>4, NetStep
<1>. QED
  BY <1>1, <1>2

(* At most one thread is inside a connection's Close, for good.            *)
LEMMA AlwaysOneCloses == ASSUME StopsOverUdp PROVE Spec => []OneCloses
<1>1. CASE ~Stopping
  <2>1. Init => NobodyStops /\ CloserHoldsMutex
    BY DEF Init, NobodyStops, CloserHoldsMutex, ClosePcs
  <2>2. /\ Typed /\ NobodyStops /\ CloserHoldsMutex /\ [Next]_vars
        => NobodyStops' /\ CloserHoldsMutex'
    BY <1>1, CloserStep, NobodyStopsStep
  <2>3. CloserHoldsMutex => OneCloses
    BY DEF CloserHoldsMutex, OneCloses
  <2>. QED
    BY <2>1, <2>2, <2>3, AlwaysTyped, PTL DEF Spec
<1>2. CASE NoTcp
  <2>1. WorkersOnlyStream => OneCloses
    BY DEF WorkersOnlyStream, UdpPcs, EndPcs, OneCloses, ClosePcs, Threads
  <2>2. Spec => []UdpServer
    BY <1>2, AlwaysUdp
  <2>. QED
    BY <2>1, <2>2, PTL DEF UdpServer
<1>. QED
  BY <1>1, <1>2 DEF StopsOverUdp
-----------------------------------------------------------------------------
(* So exactly one RemoveConnection is queued for a connection, and the     *)
(* connection stays in the registry until that one has run.                *)
Departed == {"removeClient", "join", "disconnect"}

ClosesOnlyOpen == \A t \in Threads : pc[t] = "closing" => ~isClosed[ConnOf(t)]
DepartedRegistered ==
  \A t \in Threads : pc[t] \in Departed =>
    /\ isClosed[ConnOf(t)]
    /\ connections[fdOf[ConnOf(t)]] = ConnOf(t)
    /\ \A i \in 1..Len(triggers) : triggers[i] # RemoveEvent(fdOf[ConnOf(t)])
OneRemovalQueued ==
  \A fd \in Fds : \A i \in 1..Len(triggers) : triggers[i] = RemoveEvent(fd) =>
    /\ connections[fd] \in Conns
    /\ isClosed[connections[fd]]
    /\ \A j \in 1..Len(triggers) : j # i => triggers[j] # RemoveEvent(fd)

Orderly ==
  /\ ClosesOnlyOpen
  /\ DepartedRegistered
  /\ OneRemovalQueued
  /\ OpenStaysRegistered

(* The server starts orderly.                                              *)
LEMMA InitOrderly == Init => Orderly
<1>. SUFFICES ASSUME Init PROVE Orderly
  OBVIOUS
<1>1. \A t \in Threads : pc[t] \notin ClosePcs
  BY DEF Init, ClosePcs
<1>2. OneRemovalQueued
  BY DEF Init, OneRemovalQueued
<1>3. OpenStaysRegistered
  BY DEF Init, OpenStaysRegistered, Open, Accepted
<1>. QED
  BY <1>1, <1>2, <1>3 DEF Orderly, ClosesOnlyOpen, DepartedRegistered, Departed, ClosePcs

(* A step that touches neither the registry nor the close path, except to  *)
(* go on with it.                                                          *)
Quiet ==
  /\ UNCHANGED <<netVars, isClosed>>
  /\ \A u \in Threads :
       \/ Stays(u)
       \/ pc'[u] \notin Departed \cup {"closing"}
       \/ pc'[u] = "closing" /\ ~isClosed[ConnOf(u)] /\ ConnOf(u)' = ConnOf(u)
       \/ pc[u] \in Departed /\ pc'[u] \in Departed /\ ConnOf(u)' = ConnOf(u)

(* A quiet step keeps Orderly.                                             *)
LEMMA QuietOrderly ==
  ASSUME Typed, Orderly, Quiet
  PROVE  Orderly'
<1>. USE DEF Orderly, Quiet, netVars, Stays, Departed
<1>1. OneRemovalQueued' /\ OpenStaysRegistered'
  BY DEF OneRemovalQueued, OpenStaysRegistered, Open, Accepted
<1>2. ClosesOnlyOpen'
  BY DEF ClosesOnlyOpen
<1>3. DepartedRegistered'
  BY DEF DepartedRegistered
<1>. QED
  BY <1>1, <1>2, <1>3

(* Every step is quiet or one of those on the path from Accept to          *)
(* RemoveConnection.                                                       *)
LEMMA QuietSteps ==
  ASSUME Typed, [Next]_vars
  PROVE  \/ Quiet
         \/ \E c \in Conns : Accept(c) \/ StopDisconnect(c)
         \/ HandleTriggerEvent
         \/ \E t \in Threads : CloseMark(t) \/ Disconnected(t)
<1>. USE DEF netVars, sessionVars, stopVars, requestUnchanged, workerUnchanged, stopUnchanged
<1>1. ASSUME NEW c \in Conns, HandleEvent(c)
      PROVE  Quiet
  BY <1>1, ThreadsOf DEF HandleEvent, Quiet, Stays, ConnOf, Departed, Typed, TypeOK
<1>2. CASE HandleRead \/ HandleError \/ Request
  <2>1. \E label \in {"send", "idle", "error", "addClient", "request", "close"} : Goto(Loop, label)
    BY <1>2 DEF HandleRead, HandleError, Request, OtherRequest, Setup, Play, Teardown,
       GetParameter, Describe, AnswerIfDescribed
  <2>2. UNCHANGED <<netVars, isClosed>>
    BY <1>2 DEF HandleRead, HandleError, Request, OtherRequest, Setup, Play, Teardown,
       GetParameter, Describe
  <2>. QED
    BY <2>1, <2>2, GotoMoves, ThreadsOf DEF Quiet, Departed
<1>3. CASE AddClient
  <2>1. \A u \in Threads : Stays(u) \/ pc'[u] \in {"send", "open"}
    BY <1>3, ThreadsOf DEF AddClient, Stays, ConnOf, Typed, TypeOK
  <2>2. UNCHANGED <<netVars, isClosed>>
    BY <1>3 DEF AddClient
  <2>. QED
    BY <2>1, <2>2 DEF Quiet, Departed
<1>4. ASSUME NEW t \in Threads, SendCheck(t) \/ SendAppend(t) \/ HandleWrite(t)
      PROVE  Quiet
  <2>1. \E label \in {"idle", "check", "sendLock", "flush", "close"} : Goto(t, label)
    BY <1>4 DEF SendCheck, SendAppend, HandleWrite, Resume
  <2>2. UNCHANGED <<netVars, isClosed>>
    BY <1>4 DEF SendCheck, SendAppend, HandleWrite
  <2>. QED
    BY <2>1, <2>2, GotoMoves DEF Quiet, Departed
<1>5. ASSUME NEW t \in Threads, CloseTest(t)
      PROVE  Quiet
  <2>1. \/ Goto(t, "closing") /\ ~isClosed[ConnOf(t)]
        \/ \E label \in {"idle", "check"} : Goto(t, label)
    BY <1>5 DEF CloseTest, CloseNeeded, Resume
  <2>2. UNCHANGED <<netVars, isClosed>>
    BY <1>5 DEF CloseTest
  <2>. QED
    BY <2>1, <2>2, GotoMoves DEF Quiet, Departed
<1>6. ASSUME NEW t \in Threads, RemoveClient(t) \/ JoinHandler(t)
      PROVE  Quiet
  <2>1. pc[t] \in Departed /\ \E label \in Departed : Goto(t, label)
    BY <1>6 DEF RemoveClient, JoinHandler, Departed
  <2>2. UNCHANGED <<netVars, isClosed>>
    BY <1>6 DEF RemoveClient, JoinHandler
  <2>. QED
    BY <2>1, <2>2, GotoMoves DEF Quiet, Departed
<1>7. ASSUME NEW w \in Workers, WorkerStep(w)
      PROVE  Quiet
  <2>1. \E label \in {"check", "frame", "send", "done", "refused"} : Goto(w, label)
    BY <1>7 DEF WorkerStep, OpenVideo, CheckRunning, EndOfFile, SendFrame
  <2>2. UNCHANGED <<netVars, isClosed>>
    BY <1>7 DEF WorkerStep, OpenVideo, CheckRunning, EndOfFile, SendFrame
  <2>. QED
    BY <2>1, <2>2, GotoMoves, ThreadsOf DEF Quiet, Departed
<1>8. CASE (\E t \in Threads : JoinSelf(t)) \/ Stop \/ StopStep \/ UNCHANGED vars
  BY <1>8 DEF JoinSelf, Stop, StopStep, vars, Quiet, Stays, ConnOf
<1>. QED
  BY <1>1, <1>2, <1>3, <1>4, <1>5, <1>6, <1>7, <1>8, ThreadsOf DEF Next, LoopStep, ConnStep

(* A new connection gets a descriptor that is not in use, so the registry  *)
(* holds no other connection under it.                                     *)
LEMMA AcceptOrderly ==
  ASSUME Typed, Orderly, NEW c \in Conns, Accept(c)
  PROVE  Orderly'
<1>. USE DEF Orderly, netVars
<1>. PICK fd \in FreeFds :
       /\ fdOf' = [fdOf EXCEPT ![c] = fd]
       /\ connections' = [connections EXCEPT ![fd] = IF @ = NoConn THEN c ELSE @]
  BY DEF Accept
<1>1. fd \in Fds /\ fdOf[c] = NoFd /\ c \in Conns
  BY DEF FreeFds, Accept
<1>2. connections[fd] = NoConn
  BY <1>1, ConstantsAssumption DEF FreeFds, Live, Typed, TypeOK, RegisteredIsAccepted
<1>3. UNCHANGED <<triggers, isClosed, pc, serving>>
  BY DEF Accept
<1>4. \A t \in Threads : pc[t] \in ClosePcs =>
        /\ ConnOf(t)' = ConnOf(t) /\ ConnOf(t) \in Conns /\ fdOf[ConnOf(t)] \in Fds
        /\ fdOf'[ConnOf(t)] = fdOf[ConnOf(t)]
  BY <1>1, <1>3, WorkingConn, ConstantsAssumption DEF ClosePcs, ConnOf, Typed, TypeOK
<1>5. \A f \in Fds : connections[f] # NoConn => connections'[f] = connections[f]
  BY <1>2 DEF Typed, TypeOK
<1>6. ClosesOnlyOpen'
  BY <1>3, <1>4 DEF ClosesOnlyOpen, ClosePcs
<1>7. DepartedRegistered'
  BY <1>3, <1>4, <1>5, ConstantsAssumption DEF DepartedRegistered, Departed, ClosePcs
<1>8. OneRemovalQueued'
  BY <1>3, <1>5, ConstantsAssumption DEF OneRemovalQueued
<1>9. OpenStaysRegistered'
  BY <1>1, <1>2, <1>3, ConstantsAssumption
     DEF OpenStaysRegistered, Open, Accepted, Typed, TypeOK
<1>. QED
  BY <1>6, <1>7, <1>8, <1>9

(* What HandleTriggerEvent takes off the queue.                            *)
LEMMA TriggerTaken ==
  ASSUME Typed, HandleTriggerEvent
  PROVE  /\ 1 \in 1..Len(triggers)
         /\ Len(triggers') = Len(triggers) - 1 /\ Len(triggers) \in Nat
         /\ \A i \in 1..Len(triggers') : triggers'[i] = triggers[i + 1] /\ i + 1 \in 1..Len(triggers)
         /\ \/ \E fd \in Fds : /\ triggers[1] = RemoveEvent(fd)
                               /\ connections' = [connections EXCEPT ![fd] = NoConn]
                               /\ UNCHANGED <<pc, serving>>
            \/ \E c \in Conns : /\ triggers[1] = CloseEvent(c)
                                /\ connections' = connections /\ serving' = c
                                /\ pc' = [pc EXCEPT ![Loop] = "close"] /\ pc[Loop] = "idle"
         /\ UNCHANGED <<fdOf, isClosed>>
<1>1. /\ triggers \in Seq(TriggerEvents) /\ triggers # <<>>
      /\ triggers' = Tail(triggers)
  BY DEF HandleTriggerEvent, Typed, TypeOK
<1>2. /\ Len(triggers) \in Nat \ {0} /\ Len(triggers') = Len(triggers) - 1
      /\ \A i \in 1..Len(triggers') : triggers'[i] = triggers[i + 1] /\ i + 1 \in 1..Len(triggers)
  BY <1>1
<1>3. Head(triggers) = triggers[1] /\ 1 \in 1..Len(triggers) /\ triggers[1] \in TriggerEvents
  BY <1>1, <1>2
<1>. QED
  BY <1>2, <1>3, TriggerKinds DEF HandleTriggerEvent

(* An event leaves the queue when the loop takes it, and only then.        *)
LEMMA QueuedUntilTaken ==
  ASSUME Typed, Next, NEW e, Queued(e), ~Queued(e)'
  PROVE  HandleTriggerEvent /\ triggers[1] = e
<1>. PICK i \in 1..Len(triggers) : triggers[i] = e
  BY DEF Queued
<1>1. triggers \in Seq(TriggerEvents)
  BY DEF Typed, TypeOK
<1>2. \A j \in 1..Len(triggers') : triggers'[j] # e
  BY DEF Queued
<1>3. ASSUME NEW last \in TriggerEvents, triggers' = Append(triggers, last)
      PROVE  FALSE
  BY <1>1, <1>2, <1>3
<1>4. ~\E t \in Threads : Disconnected(t)
  BY <1>3, NewEvents, WorkingConn DEF Disconnected, QueueRemoval
<1>5. ~\E c \in Conns : StopDisconnect(c)
  BY <1>3, NewEvents DEF StopDisconnect, StopEvent
<1>6. HandleTriggerEvent
  BY <1>2, <1>4, <1>5, NetStep
<1>7. CASE i # 1
  <2>1. /\ Len(triggers) \in Nat /\ Len(triggers') = Len(triggers) - 1
        /\ \A j \in 1..Len(triggers') : triggers'[j] = triggers[j + 1]
    BY <1>6, TriggerTaken
  <2>2. i - 1 \in 1..Len(triggers') /\ (i - 1) + 1 = i
    BY <1>7, <2>1
  <2>. QED
    BY <1>2, <2>1, <2>2
<1>. QED
  BY <1>6, <1>7

(* RemoveConnection runs for a closed connection, and once; a queued Close *)
(* begins without anything being marked.                                   *)
LEMMA TriggerOrderly ==
  ASSUME Typed, Orderly, HandleTriggerEvent
  PROVE  Orderly'
<1>. USE DEF Orderly
<1>1. /\ 1 \in 1..Len(triggers)
      /\ Len(triggers') = Len(triggers) - 1 /\ Len(triggers) \in Nat
      /\ \A i \in 1..Len(triggers') : triggers'[i] = triggers[i + 1] /\ i + 1 \in 1..Len(triggers)
      /\ UNCHANGED <<fdOf, isClosed>>
  BY TriggerTaken
<1>2. CASE \E fd \in Fds : /\ triggers[1] = RemoveEvent(fd)
                           /\ connections' = [connections EXCEPT ![fd] = NoConn]
                           /\ UNCHANGED <<pc, serving>>
  <2>. PICK fd \in Fds : /\ triggers[1] = RemoveEvent(fd)
                         /\ connections' = [connections EXCEPT ![fd] = NoConn]
    BY <1>2
  <2>1. UNCHANGED <<pc, serving>>
    BY <1>2
  <2>2. /\ connections[fd] \in Conns /\ isClosed[connections[fd]]
        /\ \A i \in 1..Len(triggers') : triggers'[i] # RemoveEvent(fd)
    BY <1>1 DEF OneRemovalQueued
  <2>3. ClosesOnlyOpen'
    BY <1>1, <2>1 DEF ClosesOnlyOpen, ConnOf
  <2>4. DepartedRegistered'
    <3>. SUFFICES ASSUME NEW t \in Threads, pc[t] \in Departed
                  PROVE  /\ isClosed[ConnOf(t)]
                         /\ connections'[fdOf[ConnOf(t)]] = ConnOf(t)
                         /\ \A i \in 1..Len(triggers') :
                              triggers'[i] # RemoveEvent(fdOf[ConnOf(t)])
      BY <1>1, <2>1 DEF DepartedRegistered, ConnOf
    <3>1. fdOf[ConnOf(t)] \in Fds /\ fdOf[ConnOf(t)] # fd
      BY <1>1, WorkingConn DEF DepartedRegistered, Departed
    <3>. QED
      BY <1>1, <3>1 DEF DepartedRegistered, Typed, TypeOK
  <2>5. OneRemovalQueued'
    <3>. SUFFICES ASSUME NEW f \in Fds, NEW i \in 1..Len(triggers'), triggers'[i] = RemoveEvent(f)
                  PROVE  /\ connections'[f] \in Conns /\ isClosed[connections'[f]]
                         /\ \A j \in 1..Len(triggers') : j # i => triggers'[j] # RemoveEvent(f)
      BY <1>1 DEF OneRemovalQueued
    <3>1. triggers[i + 1] = RemoveEvent(f) /\ i + 1 \in 1..Len(triggers) /\ f # fd
      BY <1>1, <2>2
    <3>2. \A j \in 1..Len(triggers') : j # i => triggers'[j] # RemoveEvent(f)
      BY <1>1, <3>1 DEF OneRemovalQueued
    <3>. QED
      BY <3>1, <3>2 DEF OneRemovalQueued, Typed, TypeOK
  <2>6. OpenStaysRegistered'
    BY <1>1, <2>2 DEF OpenStaysRegistered, Open, Accepted, Typed, TypeOK
  <2>. QED
    BY <2>3, <2>4, <2>5, <2>6
<1>3. CASE \E c \in Conns : /\ triggers[1] = CloseEvent(c)
                            /\ connections' = connections /\ serving' = c
                            /\ pc' = [pc EXCEPT ![Loop] = "close"] /\ pc[Loop] = "idle"
  <2>1. /\ pc'[Loop] = "close" /\ connections' = connections
        /\ \A t \in Threads : t # Loop => pc'[t] = pc[t] /\ ConnOf(t)' = ConnOf(t)
    BY <1>3, ThreadsOf DEF ConnOf, Typed, TypeOK
  <2>2. ClosesOnlyOpen'
    BY <1>1, <2>1 DEF ClosesOnlyOpen
  <2>3. DepartedRegistered'
    BY <1>1, <2>1 DEF DepartedRegistered, Departed
  <2>4. OneRemovalQueued'
    BY <1>1, <2>1 DEF OneRemovalQueued
  <2>5. OpenStaysRegistered'
    BY <1>1, <2>1 DEF OpenStaysRegistered, Open, Accepted
  <2>. QED
    BY <2>2, <2>3, <2>4, <2>5
<1>. QED
  BY <1>2, <1>3, TriggerTaken

(* Close marks an open connection closed, and no other thread is closing   *)
(* it.                                                                     *)
LEMMA MarkOrderly ==
  ASSUME Typed, OneCloses, Orderly, NEW t \in Threads, CloseMark(t)
  PROVE  Orderly'
<1>. USE DEF Orderly, netVars, Departed, ClosePcs
<1>. DEFINE c == ConnOf(t)
<1>1. /\ pc[t] = "closing" /\ c \in Conns /\ fdOf[c] \in Fds
      /\ ~isClosed[c] /\ connections[fdOf[c]] = c
  BY WorkingConn, ConstantsAssumption
     DEF CloseMark, ClosesOnlyOpen, OpenStaysRegistered, Open, Accepted
<1>2. /\ isClosed' = [isClosed EXCEPT ![c] = TRUE]
      /\ UNCHANGED <<fdOf, connections, triggers>>
      /\ \E label \in {"removeClient", "disconnect"} : Goto(t, label)
  BY DEF CloseMark
<1>3. /\ pc'[t] \in Departed /\ ConnOf(t)' = c
      /\ \A u \in Threads : u # t => pc'[u] = pc[u] /\ ConnOf(u)' = ConnOf(u)
  BY <1>2, GotoMoves DEF Stays
<1>4. \A u \in Threads : u # t /\ pc[u] \in ClosePcs => ConnOf(u) # c /\ ConnOf(u) \in Conns
  BY <1>1, WorkingConn DEF OneCloses
<1>5. ClosesOnlyOpen'
  BY <1>1, <1>2, <1>3, <1>4 DEF ClosesOnlyOpen, Typed, TypeOK
<1>6. \A i \in 1..Len(triggers) : triggers[i] # RemoveEvent(fdOf[c])
  BY <1>1 DEF OneRemovalQueued
<1>7. DepartedRegistered'
  <2>1. \A u \in Threads : u # t /\ pc[u] \in Departed => isClosed'[ConnOf(u)]
    BY <1>2, <1>4 DEF DepartedRegistered, Typed, TypeOK
  <2>2. isClosed'[c]
    BY <1>1, <1>2 DEF Typed, TypeOK
  <2>. QED
    BY <1>1, <1>2, <1>3, <1>6, <2>1, <2>2 DEF DepartedRegistered
<1>8. OneRemovalQueued'
  BY <1>1, <1>2 DEF OneRemovalQueued, Typed, TypeOK
<1>9. OpenStaysRegistered'
  BY <1>1, <1>2 DEF OpenStaysRegistered, Open, Accepted, Typed, TypeOK
<1>. QED
  BY <1>5, <1>7, <1>8, <1>9

(* The disconnected callback of TcpServer queues the one RemoveConnection. *)
LEMMA DisconnectedOrderly ==
  ASSUME Typed, OneCloses, Orderly, NEW t \in Threads, Disconnected(t)
  PROVE  Orderly'
<1>. USE DEF Orderly, netVars, Departed, ClosePcs
<1>. DEFINE c == ConnOf(t)
<1>1. /\ pc[t] = "disconnect" /\ c \in Conns /\ fdOf[c] \in Fds
      /\ isClosed[c] /\ connections[fdOf[c]] = c
      /\ \A i \in 1..Len(triggers) : triggers[i] # RemoveEvent(fdOf[c])
  BY WorkingConn DEF Disconnected, DepartedRegistered
<1>2. /\ triggers' = Append(triggers, RemoveEvent(fdOf[c]))
      /\ UNCHANGED <<fdOf, connections, isClosed>>
      /\ \E label \in {"idle", "check"} : Goto(t, label)
  BY DEF Disconnected, QueueRemoval, Resume
<1>3. /\ pc'[t] \notin ClosePcs
      /\ \A u \in Threads : u # t => pc'[u] = pc[u] /\ ConnOf(u)' = ConnOf(u)
  BY <1>2, GotoMoves DEF Stays
<1>4. \A u \in Threads : u # t /\ pc[u] \in ClosePcs => ConnOf(u) # c /\ ConnOf(u) \in Conns
  BY <1>1, WorkingConn DEF OneCloses
<1>5. /\ Len(triggers) \in Nat /\ Len(triggers') = Len(triggers) + 1
      /\ \A i \in 1..Len(triggers) : triggers'[i] = triggers[i]
      /\ triggers'[Len(triggers) + 1] = RemoveEvent(fdOf[c])
  BY <1>2 DEF Typed, TypeOK
<1>6. \A f, g : RemoveEvent(f) = RemoveEvent(g) => f = g
  BY EventsDiffer
<1>7. ClosesOnlyOpen'
  BY <1>2, <1>3, <1>4 DEF ClosesOnlyOpen
<1>8. DepartedRegistered'
  <2>. SUFFICES ASSUME NEW u \in Threads, u # t, pc[u] \in Departed
                PROVE  \A i \in 1..Len(triggers') : triggers'[i] # RemoveEvent(fdOf[ConnOf(u)])
    BY <1>2, <1>3 DEF DepartedRegistered
  <2>1. fdOf[ConnOf(u)] # fdOf[c]
    BY <1>1, <1>4 DEF DepartedRegistered
  <2>. QED
    BY <1>5, <1>6, <2>1 DEF DepartedRegistered
<1>9. OneRemovalQueued'
  BY <1>1, <1>2, <1>5, <1>6 DEF OneRemovalQueued
<1>10. OpenStaysRegistered'
  BY <1>2 DEF OpenStaysRegistered, Open, Accepted
<1>. QED
  BY <1>7, <1>8, <1>9, <1>10

(* Disconnect queues a Close, which is no removal.                         *)
LEMMA StopOrderly ==
  ASSUME Typed, Orderly, NEW c \in Conns, StopDisconnect(c)
  PROVE  Orderly'
<1>. USE DEF Orderly
<1>1. /\ triggers' = Append(triggers, CloseEvent(c))
      /\ UNCHANGED <<fdOf, connections, isClosed, pc, serving>>
  BY DEF StopDisconnect, StopEvent, stopUnchanged
<1>2. /\ Len(triggers) \in Nat /\ Len(triggers') = Len(triggers) + 1
      /\ \A i \in 1..Len(triggers) : triggers'[i] = triggers[i]
      /\ triggers'[Len(triggers) + 1] = CloseEvent(c)
  BY <1>1 DEF Typed, TypeOK
<1>3. \A fd : CloseEvent(c) # RemoveEvent(fd)
  BY EventsDiffer
<1>4. ClosesOnlyOpen' /\ OpenStaysRegistered'
  BY <1>1 DEF ClosesOnlyOpen, ConnOf, OpenStaysRegistered, Open, Accepted
<1>5. DepartedRegistered'
  BY <1>1, <1>2, <1>3 DEF DepartedRegistered, ConnOf
<1>6. OneRemovalQueued'
  BY <1>1, <1>2, <1>3 DEF OneRemovalQueued
<1>. QED
  BY <1>4, <1>5, <1>6

(* Every step keeps Orderly, if no other thread closes the connection that *)
(* a thread closes.                                                        *)
LEMMA OrderlyStep ==
  ASSUME Typed, OneCloses, Orderly, [Next]_vars
  PROVE  Orderly'
BY QuietSteps, QuietOrderly, AcceptOrderly, TriggerOrderly, MarkOrderly, DisconnectedOrderly,
   StopOrderly

(* Orderly holds for good, as long as nobody runs Stop while workers close *)
(* connections.                                                            *)
LEMMA AlwaysOrderly == ASSUME StopsOverUdp PROVE Spec => []Orderly
<1>1. Typed /\ OneCloses /\ Orderly /\ [Next]_vars => Orderly'
  BY OrderlyStep
<1>2. Spec => []OneCloses
  BY AlwaysOneCloses
<1>. QED
  BY <1>1, <1>2, InitOrderly, AlwaysTyped, PTL DEF Spec

(* Theorem: unless TcpServer::Stop runs while clients may stream over TCP, *)
(* a connection that has not been closed is in the registry, however       *)
(* descriptor numbers are reused and whichever threads close connections.  *)
THEOREM OpenSafe == ASSUME StopsOverUdp PROVE Spec => []OpenStaysRegistered
BY AlwaysOrderly, PTL DEF Orderly

(* Theorem: then too, RemoveConnection only ever removes a connection that *)
(* Close has marked closed.                                                *)
THEOREM RemovalSafe == ASSUME StopsOverUdp PROVE Spec => RemovesOnlyClosed
<1>1. ASSUME Typed, Orderly, [Next]_vars
      PROVE  [\A fd \in Fds : connections[fd] # NoConn /\ connections'[fd] # connections[fd]
                                => isClosed[connections[fd]]]_vars
  <2>. SUFFICES ASSUME Next, NEW fd \in Fds, connections[fd] # NoConn,
                       connections'[fd] # connections[fd]
                PROVE  isClosed[connections[fd]]
    BY <1>1
  <2>1. HandleTriggerEvent
    BY NetStep, <1>1 DEF Accept, Typed, TypeOK
  <2>2. 1 \in 1..Len(triggers) /\ triggers[1] = RemoveEvent(fd)
    BY <1>1, <2>1, TriggerTaken DEF Typed, TypeOK
  <2>. QED
    BY <1>1, <2>2 DEF Orderly, OneRemovalQueued
<1>2. Spec => []Orderly
  BY AlwaysOrderly
<1>. QED
  BY <1>1, <1>2, AlwaysTyped, PTL DEF Spec, RemovesOnlyClosed
-----------------------------------------------------------------------------
(* What the refinement of StreamRegistry rests on.  A client that may      *)
(* stream over TCP describes one session: a worker that closes the         *)
(* connection of a client with a second one removes the handler of that    *)
(* one, and the loop may start another meanwhile.                          *)
TcpDescribesOne ==
  \A c \in Conns : "tcp" \in Transports[c] => \A s, other \in Targets[c] : s = other

Removing == {"removeClient", "join"}

(* What a connection has described its client may describe, and a thread   *)
(* works on the session its connection has described last.                 *)
ConnsAsTold ==
  \A c \in Conns : /\ sessionId[c] \in Targets[c] \cup {NoSession}
                   /\ rtp[c].mode = "tcp" => "tcp" \in Transports[c]
                   /\ ~Accepted(c) => ~isClosed[c] /\ sessionId[c] = NoSession
StreamsAsTold ==
  \A w \in Workers :
    /\ pc[w] # "none" => w[1] \in Targets[w[2]] /\ sessionId[w[2]] # NoSession
    /\ pc[w] \in SendPcs \cup ClosePcs => "tcp" \in Transports[w[2]]
    /\ pc[w] # "disconnect"
AddsDescribed == pc[Loop] = "addClient" => target[Loop] = sessionId[serving]
RemovesDescribed ==
  \A t \in Threads : pc[t] \in Removing =>
    target[t] = sessionId[ConnOf(t)] /\ target[t] \in Sessions
WorksOnDescribed == ConnsAsTold /\ StreamsAsTold /\ AddsDescribed /\ RemovesDescribed

(* A request is handled for a connection that is open, or that one of its  *)
(* own workers is closing.                                                 *)
RequestsAreOpen ==
  pc[Loop] \in {"request", "addClient"} /\ isClosed[serving] =>
    \E s \in Sessions : pc[<<s, serving>>] \in Removing

(* At most one living connection has a descriptor.                         *)
OneLives ==
  \A c, d \in Conns : Live(c) /\ Live(d) /\ fdOf[c] = fdOf[d] => c = d

(* As long as the connection lives, the entry of a worker that streams to  *)
(* it is its own.                                                          *)
AliveHasEntry ==
  \A s \in Sessions, c \in Conns :
    Alive(<<s, c>>) /\ Live(c) => clients[s][fdOf[c]] = c

(* The stream that was described last is over once the session has been    *)
(* told that the connection is closed.                                     *)
ClosedIsOver ==
  \A c \in Conns, s \in Sessions :
    isClosed[c] /\ sessionId[c] = s /\ Alive(<<s, c>>)
    => \E t \in Threads : ConnOf(t) = c /\ pc[t] \in Removing

Bound == /\ WorksOnDescribed /\ RequestsAreOpen /\ OneLives
         /\ AliveHasEntry /\ ClosedIsOver

(* What holds anyway: see the theorems above.                              *)
Sound == Typed /\ Orderly /\ HandlerOutlivesThread

(* Which steps set what the bound between a stream and its connection is   *)
(* made of; all the others leave it alone.                                 *)
LEMMA SessionSteps ==
  ASSUME Next
  PROVE  /\ sessionId' = sessionId \/ \E s \in Sessions : Describe(s)
         /\ isClosed' = isClosed \/ \E t \in Threads : CloseMark(t)
         /\ clients' = clients \/ AddClient \/ \E t \in Threads : RemoveClient(t) \/ JoinHandler(t)
<1>. USE DEF netVars, sessionVars, stopVars, requestUnchanged, workerUnchanged, stopUnchanged
<1>1. CASE \/ \E c \in Conns : Accept(c) \/ HandleEvent(c) \/ StopDisconnect(c)
           \/ HandleTriggerEvent \/ HandleRead \/ HandleError
           \/ Stop \/ StopStep \/ AddClient
  BY <1>1 DEF Accept, HandleEvent, StopDisconnect, HandleTriggerEvent, HandleRead, HandleError,
         Stop, StopStep, AddClient
<1>2. CASE OtherRequest \/ Setup \/ Play \/ Teardown \/ GetParameter
  BY <1>2 DEF OtherRequest, Setup, Play, Teardown, GetParameter
<1>3. CASE \E s \in Sessions \cup {NoSession} : Describe(s)
  BY <1>3 DEF Describe
<1>4. CASE \E t \in Threads : ConnStep(t)
  BY <1>4 DEF ConnStep, SendCheck, SendAppend, HandleWrite, CloseTest, CloseMark,
     RemoveClient, JoinHandler, JoinSelf, Disconnected
<1>5. CASE \E w \in Workers : WorkerStep(w)
  BY <1>5 DEF WorkerStep, OpenVideo, CheckRunning, EndOfFile, SendFrame
<1>. QED
  BY <1>1, <1>2, <1>3, <1>4, <1>5 DEF Next, LoopStep, Request

(* The loop, too, only moves by its own steps.                             *)
LEMMA LoopMoves ==
  ASSUME Typed, Next
  PROVE  \/ Stays(Loop)
         \/ \E c \in Conns : HandleEvent(c)
         \/ HandleTriggerEvent \/ LoopStep \/ ConnStep(Loop)
<1>. USE DEF netVars, sessionVars, stopVars, requestUnchanged, workerUnchanged, stopUnchanged
<1>. USE ThreadsOf DEF Stays, ConnOf
<1>1. CASE \/ \E c \in Conns : Accept(c) \/ StopDisconnect(c)
           \/ Stop \/ StopStep
  BY <1>1 DEF Accept, StopDisconnect, Stop, StopStep
<1>2. ASSUME NEW t \in Workers, ConnStep(t) \/ WorkerStep(t)
      PROVE  Stays(Loop)
  <2>1. t # Loop /\ t \in Threads
    BY ConstantsAssumption DEF Workers
  <2>2. (\E label : Goto(t, label)) \/ JoinSelf(t)
    BY <1>2 DEF ConnStep, SendCheck, SendAppend, HandleWrite, CloseTest, CloseMark,
     RemoveClient, JoinHandler, JoinSelf, Disconnected, WorkerStep, OpenVideo, CheckRunning,
     EndOfFile, SendFrame
  <2>. QED
    BY <2>1, <2>2 DEF Goto, JoinSelf, Typed, TypeOK
<1>. QED
  BY <1>1, <1>2 DEF Next, Threads

(* A connection lives while a thread works on it.                          *)
LEMMA WorkingLives ==
  ASSUME Typed, NEW t \in Threads,
         pc[t] \in SendPcs \cup ClosePcs \/ (t = Loop /\ pc[t] \notin {"idle", "none"})
  PROVE  ConnOf(t) \in Conns /\ fdOf[ConnOf(t)] \in Fds /\ Live(ConnOf(t))
<1>1. ConnOf(t) \in Conns /\ fdOf[ConnOf(t)] \in Fds
  BY WorkingConn DEF SendPcs, ClosePcs
<1>2. Holds(t, ConnOf(t))
  BY DEF Holds, SendPcs, ClosePcs, Threads
<1>. QED
  BY <1>1, <1>2, ConstantsAssumption DEF Live

(* A client whose descriptor has no entry is not being streamed to.        *)
LEMMA UnknownIsIdle ==
  ASSUME Typed, AliveHasEntry, AddClient, Unknown(target[Loop], fdOf[serving])
  PROVE  ~Alive(<<target[Loop], serving>>)
<1>1. pc[Loop] = "addClient" /\ target[Loop] \in Sessions
  BY DEF AddClient, Typed, AddsToSession
<1>2. serving \in Conns /\ Live(serving)
  BY <1>1, WorkingLives, ThreadsOf, ConstantsAssumption DEF ConnOf, Workers
<1>. QED
  BY <1>1, <1>2, ConstantsAssumption DEF AliveHasEntry, Unknown

(* How a thread comes to remove its connection from a session, and how it  *)
(* gets done with that.                                                    *)
LEMMA RemovingMoves ==
  ASSUME Typed, AliveHasEntry, Next, NEW t \in Threads
  PROVE  /\ pc'[t] \in Removing => Stays(t) \/ CloseMark(t) \/ RemoveClient(t)
         /\ pc[t] \in Removing => Stays(t) \/ RemoveClient(t) \/ JoinHandler(t)
<1>. USE DEF netVars, sessionVars, stopVars, requestUnchanged, workerUnchanged, stopUnchanged
<1>. DEFINE Elsewhere == pc'[t] \notin Removing /\ pc[t] \notin Removing
<1>1. ASSUME ConnStep(t)
      PROVE  \/ Elsewhere \/ Stays(t) \/ RemoveClient(t)
             \/ (CloseMark(t) /\ pc[t] \notin Removing)
             \/ (JoinHandler(t) /\ pc'[t] \notin Removing)
  <2>1. CASE SendCheck(t) \/ SendAppend(t) \/ HandleWrite(t) \/ CloseTest(t) \/ Disconnected(t)
    BY <2>1 DEF SendCheck, SendAppend, HandleWrite, CloseTest, Disconnected, Resume, Goto,
       Removing, Typed, TypeOK
  <2>2. CASE JoinHandler(t) \/ JoinSelf(t) \/ CloseMark(t)
    BY <2>2 DEF JoinHandler, JoinSelf, CloseMark, Goto, Removing, Typed, TypeOK, Stays, ConnOf
  <2>. QED
    BY <1>1, <2>1, <2>2 DEF ConnStep
<1>2. CASE t = Loop
  <2>1. ASSUME LoopStep \/ (\E c \in Conns : HandleEvent(c)) \/ HandleTriggerEvent
        PROVE  Elsewhere
    <3>1. (\E c \in Conns : HandleEvent(c)) \/ HandleTriggerEvent \/ AddClient => Elsewhere
      BY <1>2, ThreadsOf DEF HandleEvent, HandleTriggerEvent, AddClient, Typed, TypeOK, Removing
    <3>2. HandleRead \/ HandleError \/ Request => Elsewhere
      BY <1>2, ThreadsOf DEF Request, HandleRead, HandleError, OtherRequest, Setup, Play,
         Teardown, GetParameter, Describe, Goto, AnswerIfDescribed, Typed, TypeOK, Removing,
         Requesting
    <3>. QED
      BY <2>1, <3>1, <3>2 DEF LoopStep
  <2>. QED
    BY <1>1, <1>2, <2>1, LoopMoves
<1>3. CASE t \in Workers
  <2>1. Stays(t) <=> pc'[t] = pc[t]
    BY <1>3, ConstantsAssumption DEF ConnOf, Stays, Workers
  <2>2. ASSUME WorkerStep(t)
        PROVE  Elsewhere
    BY <2>2 DEF WorkerStep, OpenVideo, CheckRunning, EndOfFile, SendFrame, Goto,
       Removing, Typed, TypeOK
  <2>3. ASSUME AddClient, t = <<target[Loop], serving>>, pc'[t] # pc[t]
        PROVE  Elsewhere
    <3>1. Unknown(target[Loop], fdOf[serving])
      BY <1>3, <2>3, ConstantsAssumption, ThreadsOf DEF AddClient, Typed, TypeOK, Workers
    <3>2. pc'[t] = "open" /\ pc[t] \in EndPcs \cup {"none"}
      BY <1>3, <2>3, <3>1, UnknownIsIdle DEF AddClient, Typed, TypeOK, Alive
    <3>. QED
      BY <3>2 DEF Removing, EndPcs
  <2>. QED
    BY <1>1, <1>3, <2>1, <2>2, <2>3, WorkerMoves
<1>. QED
  BY <1>2, <1>3 DEF Threads

(* A connection lives in the registry, in a queued Close or in the threads *)
(* that work on it.                                                        *)
CloseQueued(c) == \E i \in 1..Len(triggers) : triggers[i] = CloseEvent(c)

LEMMA LiveWhen ==
  ASSUME NEW c \in Conns
  PROVE  Live(c) <=> /\ fdOf[c] # NoFd
                     /\ connections[fdOf[c]] = c \/ CloseQueued(c) \/ \E t \in Threads : Holds(t, c)
BY DEF Live, CloseQueued

(* So it does after a step.                                                *)
LEMMA LiveWhenNext ==
  ASSUME NEW c \in Conns
  PROVE  Live(c)' <=> /\ fdOf'[c] # NoFd
                      /\ \/ connections'[fdOf'[c]] = c
                         \/ CloseQueued(c)'
                         \/ \E t \in Threads : Holds(t, c)'
BY DEF Live, CloseQueued

(* Stop queues a Close of a registered connection only.                    *)
LEMMA QueuedBefore ==
  ASSUME Typed, Next, NEW c \in Conns, Accepted(c), CloseQueued(c)'
  PROVE  Live(c)
<1>. PICK i \in 1..Len(triggers') : triggers'[i] = CloseEvent(c)
  BY DEF CloseQueued
<1>1. CASE HandleTriggerEvent
  BY <1>1, TriggerTaken, LiveWhen DEF CloseQueued, Accepted
<1>2. CASE \E t \in Threads : Disconnected(t)
  <2>. PICK t \in Threads : triggers' = Append(triggers, RemoveEvent(fdOf[ConnOf(t)]))
    BY <1>2 DEF Disconnected, QueueRemoval
  <2>1. i \in 1..Len(triggers) /\ triggers[i] = CloseEvent(c)
    BY EventsDiffer DEF Typed, TypeOK
  <2>. QED
    BY <2>1, LiveWhen DEF CloseQueued, Accepted
<1>3. ASSUME NEW d \in Conns, StopDisconnect(d)
      PROVE  Live(c)
  <2>1. triggers' = Append(triggers, CloseEvent(d)) /\ \E fd \in Fds : connections[fd] = d
    BY <1>3 DEF StopDisconnect, StopEvent, Unswept
  <2>2. connections[fdOf[d]] = d
    BY <2>1 DEF Typed, RegisteredIsAccepted
  <2>3. CloseQueued(c) \/ c = d
    BY <2>1, EventsDiffer DEF CloseQueued, Typed, TypeOK
  <2>. QED
    BY <2>2, <2>3, LiveWhen DEF Accepted
<1>4. CASE triggers' = triggers
  BY <1>4, LiveWhen DEF CloseQueued, Accepted
<1>. QED
  BY <1>1, <1>2, <1>3, <1>4, NetStep

(* A thread starts to work on a connection while that is alive: an event   *)
(* comes for an open one, and a worker that sends over TCP asks first.     *)
LEMMA HoldsLiving ==
  ASSUME Typed, Orderly, Next, NEW c \in Conns, NEW t \in Threads, Holds(t, c)'
  PROVE  Holds(t, c) \/ Live(c)
<1>1. CASE t = Loop
  <2>1. ASSUME NEW d \in Conns, HandleEvent(d)
        PROVE  d = c /\ Live(c)
    BY <1>1, <2>1 DEF HandleEvent, Holds, ConnOf, Orderly, OpenStaysRegistered, Open, Accepted,
       Live
  <2>2. ASSUME HandleTriggerEvent
        PROVE  pc'[Loop] = "idle" \/ (serving' = c => Live(c))
    <3>1. CASE UNCHANGED <<pc, serving>>
      BY <2>2, <3>1 DEF HandleTriggerEvent
    <3>2. ASSUME NEW d \in Conns, triggers[1] = CloseEvent(d), serving' = d
          PROVE  serving' = c => Live(c)
      <4>1. 1 \in 1..Len(triggers)
        BY <2>2, TriggerTaken
      <4>2. CloseEvent(d).kind = "close" /\ CloseEvent(d).conn = d
        BY DEF CloseEvent
      <4>3. Accepted(d)
        BY <3>2, <4>1, <4>2 DEF Typed, QueuedIsAccepted
      <4>. QED
        BY <2>2, <3>2, <4>1, <4>3, TriggerTaken, LiveWhen DEF CloseQueued, Accepted
    <3>. QED
      BY <2>2, <3>1, <3>2, TriggerTaken
  <2>3. ASSUME LoopStep
        PROVE  pc[Loop] # "idle" /\ (pc'[Loop] = "idle" \/ serving' = serving)
    BY <2>3, ThreadsOf DEF LoopStep, HandleRead, HandleError, Request, OtherRequest, Setup,
       Play, Teardown, GetParameter, Describe, AddClient, Requesting, Goto, AnswerIfDescribed,
       Typed, TypeOK
  <2>4. ASSUME ConnStep(Loop)
        PROVE  pc[Loop] # "idle" /\ (pc'[Loop] = "idle" \/ serving' = serving)
    BY <2>4, ThreadsOf DEF ConnStep, SendCheck, SendAppend, HandleWrite, CloseTest, CloseMark,
       RemoveClient, JoinHandler, JoinSelf, Disconnected, Goto, Typed, TypeOK
  <2>5. ASSUME Stays(Loop)
        PROVE  pc'[Loop] = pc[Loop] /\ serving' = serving
    BY <2>5 DEF Stays, ConnOf
  <2>. QED
    BY <1>1, <2>1, <2>2, <2>3, <2>4, <2>5, LoopMoves DEF Holds, ConnOf
<1>2. CASE t \in Workers
  <2>1. t # Loop /\ ConnOf(t) = t[2] /\ ConnOf(t)' = t[2] /\ t[2] = c
    BY <1>2, ConstantsAssumption DEF Workers, ConnOf, Holds
  <2>2. CASE pc'[t] = pc[t] \/ pc'[t] = "open"
    BY <2>1, <2>2 DEF Holds, SendPcs, ClosePcs
  <2>3. CASE ConnStep(t)
    BY <2>1, <2>3 DEF ConnStep, SendCheck, SendAppend, HandleWrite, CloseTest, CloseMark,
       RemoveClient, JoinHandler, JoinSelf, Disconnected, Holds, SendPcs, ClosePcs
  <2>4. CASE WorkerStep(t)
    BY <2>1, <2>4 DEF WorkerStep, OpenVideo, CheckRunning, EndOfFile, SendFrame, Goto, Holds, SendPcs, ClosePcs, Typed, TypeOK
  <2>. QED
    BY <1>2, <2>2, <2>3, <2>4, WorkerMoves
<1>. QED
  BY <1>1, <1>2 DEF Threads

(* An accepted connection that lives after a step has lived before.        *)
LEMMA LiveBefore ==
  ASSUME Typed, Orderly, Next, NEW c \in Conns, Accepted(c), Live(c)'
  PROVE  Live(c)
<1>1. fdOf'[c] = fdOf[c] /\ fdOf[c] \in Fds
  BY AcceptedStays DEF Accepted, Typed, TypeOK
<1>2. CASE connections'[fdOf[c]] = c
  <2>1. CASE \E d \in Conns : Accept(d)
    BY <1>1, <1>2, <2>1, LiveWhen DEF Accept, Accepted, Typed, TypeOK, FreeFds
  <2>2. CASE HandleTriggerEvent
    BY <1>1, <1>2, <2>2, LiveWhen, ConstantsAssumption
       DEF HandleTriggerEvent, Accepted, Typed, TypeOK
  <2>3. CASE connections' = connections
    BY <1>1, <1>2, <2>3, LiveWhen DEF Accepted
  <2>. QED
    BY <2>1, <2>2, <2>3, NetStep
<1>3. ASSUME NEW t \in Threads, Holds(t, c)'
      PROVE  Live(c)
  BY <1>3, HoldsLiving DEF Live, Accepted
<1>. QED
  BY <1>1, <1>2, <1>3, LiveWhenNext, QueuedBefore

(* A descriptor is handed out when no living connection has it.            *)
LEMMA OneLivesStep ==
  ASSUME Typed, Typed', Orderly, OneLives, Next
  PROVE  OneLives'
<1>1. CASE \E a \in Conns : Accept(a)
  <2>. PICK a \in Conns : Accept(a)
    BY <1>1
  <2>. PICK fd \in FreeFds : fdOf' = [fdOf EXCEPT ![a] = fd]
    BY DEF Accept
  <2>1. fd \in Fds /\ fdOf[a] = NoFd /\ \A c \in Conns : Live(c) => fdOf[c] # fd
    BY DEF FreeFds, Accept
  <2>2. fdOf'[a] = fd /\ \A c \in Conns : c # a => fdOf'[c] = fdOf[c]
    BY DEF Typed, TypeOK
  <2>3. \A c \in Conns : c # a /\ Live(c)' => Live(c)
    BY <2>2, LiveBefore, LiveWhenNext DEF Accepted
  <2>. QED
    BY <2>1, <2>2, <2>3 DEF OneLives
<1>2. CASE fdOf' = fdOf
  <2>1. \A c \in Conns : Live(c)' => Accepted(c)
    BY <1>2, LiveWhenNext DEF Accepted
  <2>2. \A c \in Conns : Live(c)' => Live(c)
    BY <2>1, LiveBefore
  <2>. QED
    BY <1>2, <2>2 DEF OneLives
<1>. QED
  BY <1>1, <1>2, NetStep

(* A worker that removes its connection from the session it streams finds  *)
(* its own entry and its own handler there.                                *)
LEMMA WorkerFindsItself ==
  ASSUME Sound, TcpDescribesOne, WorksOnDescribed, AliveHasEntry,
         NEW w \in Workers, pc[w] \in Removing
  PROVE  target[w] = w[1] /\ ConnOf(w) = w[2] /\ Victim(w) = w /\ HasHandler(w)
<1>1. /\ w \in Threads /\ ConnOf(w) = w[2] /\ w[2] \in Conns /\ w[1] \in Sessions
      /\ w = <<w[1], w[2]>>
  BY ConstantsAssumption, ThreadsOf DEF Workers, ConnOf
<1>2. /\ pc[w] # "none" /\ pc[w] \in SendPcs \cup ClosePcs /\ Alive(w)
  BY DEF Removing, SendPcs, ClosePcs, Alive, EndPcs
<1>3. target[w] = w[1]
  <2>1. target[w] = sessionId[w[2]] /\ target[w] \in Sessions
    BY <1>1, ThreadsOf DEF WorksOnDescribed, RemovesDescribed
  <2>2. sessionId[w[2]] \in Targets[w[2]]
    BY <1>1, <2>1, ConstantsAssumption DEF WorksOnDescribed, ConnsAsTold
  <2>3. w[1] \in Targets[w[2]] /\ "tcp" \in Transports[w[2]]
    BY <1>2 DEF WorksOnDescribed, StreamsAsTold
  <2>. QED
    BY <1>1, <2>1, <2>2, <2>3 DEF TcpDescribesOne
<1>4. Live(w[2])
  BY <1>1, <1>2, WorkingLives DEF Sound
<1>5. Registered(w) = w[2]
  BY <1>1, <1>2, <1>3, <1>4 DEF Registered, AliveHasEntry
<1>6. w \in handlers
  BY <1>2 DEF Sound, HandlerOutlivesThread
<1>7. Victim(w) = w
  BY <1>1, <1>3, <1>5 DEF Victim
<1>8. Registered(w) # NoConn /\ RtpLive(Registered(w))
  BY <1>1, <1>4, <1>5, ConstantsAssumption DEF RtpLive
<1>. QED
  BY <1>1, <1>3, <1>6, <1>7, <1>8 DEF HasHandler

(* A thread that removes an entry removes its own connection's, and that   *)
(* only when no worker streams to it.                                      *)
LEMMA ErasesIdle ==
  ASSUME Sound, OneLives, AliveHasEntry, NEW t \in Threads,
         NEW s \in Sessions, NEW c \in Conns, Alive(<<s, c>>), Live(c),
         target[t] = s, fdOf[ConnOf(t)] = fdOf[c], pc[t] \in Removing
  PROVE  ConnOf(t) = c /\ Victim(t) = <<s, c>> /\ HasHandler(t)
<1>1. ConnOf(t) \in Conns /\ Live(ConnOf(t))
  BY WorkingLives DEF Removing, SendPcs, ClosePcs, Sound
<1>2. ConnOf(t) = c
  BY <1>1 DEF OneLives
<1>3. Registered(t) = c
  BY <1>2 DEF Registered, AliveHasEntry
<1>4. <<s, c>> \in handlers
  BY DEF Sound, HandlerOutlivesThread, Workers
<1>. QED
  BY <1>2, <1>3, <1>4, ConstantsAssumption DEF Victim, HasHandler, RtpLive

(* A Describe changes the session of the connection the loop serves.       *)
LEMMA DescribeSets ==
  ASSUME Typed, NEW s \in Sessions, Describe(s)
  PROVE  /\ serving \in Conns /\ Accepted(serving) /\ s \in Targets[serving]
         /\ pc[Loop] = "request" /\ pc'[Loop] = "addClient" /\ serving' = serving
         /\ target' = [target EXCEPT ![Loop] = s]
         /\ sessionId' = [sessionId EXCEPT ![serving] = s]
         /\ \A w \in Workers : pc'[w] = pc[w]
         /\ UNCHANGED <<fdOf, isClosed, clients, handlers>>
BY ConstantsAssumption, ThreadsOf
   DEF Describe, Requesting, Goto, requestUnchanged, netVars, sessionVars, Typed, TypeOK,
       LoopServes, Workers

(* A connection that has described a session goes on to have described one. *)
LEMMA DescribedStays ==
  ASSUME Typed, Next, NEW c \in Conns, sessionId[c] # NoSession
  PROVE  sessionId'[c] # NoSession
BY SessionSteps, DescribeSets, ConstantsAssumption DEF Typed, TypeOK

(* Which step sets what a client asked for in SETUP.                       *)
LEMMA ModeStep ==
  ASSUME Typed, Next, NEW c \in Conns
  PROVE  rtp'[c].mode = rtp[c].mode \/ rtp'[c].mode \in Transports[c]
<1>. USE DEF netVars, sessionVars, stopVars, requestUnchanged, workerUnchanged, stopUnchanged
<1>1. rtp \in [Conns -> Rtp]
  BY DEF Typed, TypeOK
<1>2. CASE Setup
  <2>1. serving \in Conns
    BY <1>2 DEF Setup, Requesting, LoopServes, Typed
  <2>2. ASSUME NEW mode \in Supported(serving),
               rtp' = [rtp EXCEPT ![serving].mode = mode, ![serving].setup = TRUE]
        PROVE  rtp'[c].mode = rtp[c].mode \/ rtp'[c].mode \in Transports[c]
    BY <1>1, <2>1, <2>2 DEF Supported, Rtp
  <2>. QED
    BY <1>2, <2>2 DEF Setup
<1>3. CASE Play \/ Teardown \/ \E s \in Sessions \cup {NoSession} : Describe(s)
  BY <1>1, <1>3 DEF Play, Teardown, Describe, Rtp
<1>4. ASSUME NEW w \in Workers, SendFrame(w)
      PROVE  rtp'[c].mode = rtp[c].mode
  BY <1>1, <1>4 DEF SendFrame, Rtp, Workers
<1>5. CASE \/ \E a \in Conns : Accept(a) \/ HandleEvent(a) \/ StopDisconnect(a)
           \/ HandleTriggerEvent \/ HandleRead \/ HandleError \/ OtherRequest \/ GetParameter
           \/ AddClient \/ Stop \/ StopStep
  BY <1>5 DEF Accept, HandleEvent, StopDisconnect, HandleTriggerEvent, HandleRead,
     HandleError, OtherRequest, GetParameter, AddClient, Stop, StopStep
<1>6. CASE \E t \in Threads : ConnStep(t)
  BY <1>6 DEF ConnStep, SendCheck, SendAppend, HandleWrite, CloseTest, CloseMark,
     RemoveClient, JoinHandler, JoinSelf, Disconnected
<1>7. ASSUME NEW w \in Workers, OpenVideo(w) \/ CheckRunning(w) \/ EndOfFile(w)
      PROVE  rtp' = rtp
  BY <1>7 DEF OpenVideo, CheckRunning, EndOfFile
<1>. QED
  BY <1>2, <1>3, <1>4, <1>5, <1>6, <1>7 DEF Next, LoopStep, Request, WorkerStep

(* A connection is marked closed by the thread that closes it.             *)
LEMMA MarkSets ==
  ASSUME Typed, NEW t \in Threads, CloseMark(t)
  PROVE  /\ ConnOf(t) \in Conns /\ Accepted(ConnOf(t)) /\ pc[t] = "closing"
         /\ isClosed' = [isClosed EXCEPT ![ConnOf(t)] = TRUE]
         /\ target'[t] = sessionId[ConnOf(t)]
         /\ pc'[t] = IF sessionId[ConnOf(t)] = NoSession THEN "disconnect" ELSE "removeClient"
         /\ ConnOf(t)' = ConnOf(t)
         /\ \A u \in Threads : u # t => Stays(u)
         /\ UNCHANGED <<fdOf, connections, sessionId, clients, handlers>>
<1>1. ConnOf(t) \in Conns /\ fdOf[ConnOf(t)] \in Fds
  BY WorkingConn DEF CloseMark
<1>2. \E label \in {"disconnect", "removeClient"} :
        Goto(t, label) /\ label = IF sessionId[ConnOf(t)] = NoSession THEN "disconnect" ELSE "removeClient"
  BY DEF CloseMark
<1>3. /\ pc'[t] = IF sessionId[ConnOf(t)] = NoSession THEN "disconnect" ELSE "removeClient"
      /\ ConnOf(t)' = ConnOf(t)
      /\ \A u \in Threads : u # t => Stays(u)
  BY <1>2, GotoMoves
<1>. QED
  BY <1>1, <1>3, ConstantsAssumption DEF CloseMark, Accepted, netVars, sessionVars, Typed, TypeOK

(* What a connection has is what its client may ask for.                   *)
LEMMA ConnsAsToldStep ==
  ASSUME Typed, ConnsAsTold, Next
  PROVE  ConnsAsTold'
<1>. SUFFICES ASSUME NEW c \in Conns
              PROVE  /\ sessionId'[c] \in Targets[c] \cup {NoSession}
                     /\ rtp'[c].mode = "tcp" => "tcp" \in Transports[c]
                     /\ ~Accepted(c)' => ~isClosed'[c] /\ sessionId'[c] = NoSession
  BY DEF ConnsAsTold
<1>1. sessionId'[c] \in Targets[c] \cup {NoSession}
  BY SessionSteps, DescribeSets DEF ConnsAsTold, Typed, TypeOK
<1>2. rtp'[c].mode = "tcp" => "tcp" \in Transports[c]
  BY ModeStep DEF ConnsAsTold
<1>3. ~Accepted(c)' => ~Accepted(c)
  BY AcceptedStays, ConstantsAssumption DEF Accepted, Typed
<1>4. ~Accepted(c) => isClosed'[c] = isClosed[c] /\ sessionId'[c] = sessionId[c]
  BY SessionSteps, MarkSets, DescribeSets DEF Typed, TypeOK
<1>. QED
  BY <1>1, <1>2, <1>3, <1>4 DEF ConnsAsTold

(* A worker streams what its client has described, sends on a connection   *)
(* whose client asked for TCP, and never gets to the end of a Close: there *)
(* it would have to join itself.                                           *)
LEMMA StreamsAsToldStep ==
  ASSUME Sound, TcpDescribesOne, WorksOnDescribed, AliveHasEntry, Next
  PROVE  StreamsAsTold'
<1>. SUFFICES ASSUME NEW w \in Workers
              PROVE  /\ pc'[w] # "none" => w[1] \in Targets[w[2]] /\ sessionId'[w[2]] # NoSession
                     /\ pc'[w] \in SendPcs \cup ClosePcs => "tcp" \in Transports[w[2]]
                     /\ pc'[w] # "disconnect"
  BY DEF StreamsAsTold
<1>1. /\ w \in Threads /\ ConnOf(w) = w[2] /\ w[2] \in Conns
      /\ pc[w] # "none" => w[1] \in Targets[w[2]] /\ sessionId[w[2]] # NoSession
      /\ pc[w] \in SendPcs \cup ClosePcs => "tcp" \in Transports[w[2]]
      /\ pc[w] # "disconnect"
  BY ConstantsAssumption, ThreadsOf DEF Workers, ConnOf, WorksOnDescribed, StreamsAsTold
<1>2. sessionId[w[2]] # NoSession => sessionId'[w[2]] # NoSession
  BY <1>1, DescribedStays DEF Sound
<1>3. CASE pc'[w] = pc[w]
  BY <1>1, <1>2, <1>3
<1>4. CASE AddClient /\ w = <<target[Loop], serving>> /\ pc'[w] = "open"
  <2>1. sessionId[w[2]] = w[1] /\ w[1] \in Sessions
    BY <1>4, <1>1 DEF AddClient, WorksOnDescribed, AddsDescribed, Workers
  <2>2. sessionId[w[2]] \in Targets[w[2]]
    BY <1>1, <2>1, ConstantsAssumption DEF WorksOnDescribed, ConnsAsTold
  <2>. QED
    BY <1>2, <1>4, <2>1, <2>2, ConstantsAssumption DEF SendPcs, ClosePcs
<1>5. CASE WorkerStep(w)
  <2>1. pc[w] # "none" /\ pc'[w] \in {"check", "frame", "done", "refused", "send"}
    BY <1>1, <1>5 DEF WorkerStep, OpenVideo, CheckRunning, EndOfFile, SendFrame, Goto, Sound, Typed, TypeOK
  <2>2. pc'[w] = "send" => rtp[w[2]].mode = "tcp"
    BY <1>1, <1>5 DEF WorkerStep, OpenVideo, CheckRunning, EndOfFile, SendFrame, Goto, OverTcp, Sound, Typed, TypeOK
  <2>. QED
    BY <1>1, <1>2, <2>1, <2>2 DEF SendPcs, ClosePcs, WorksOnDescribed, ConnsAsTold
<1>6. CASE ConnStep(w)
  <2>1. pc[w] \in SendPcs \cup ClosePcs /\ pc[w] # "none"
    BY <1>6 DEF ConnStep, SendCheck, SendAppend, HandleWrite, CloseTest, CloseMark,
       RemoveClient, JoinHandler, JoinSelf, Disconnected, SendPcs, ClosePcs
  <2>2. pc'[w] # "disconnect"
    <3>1. CASE SendCheck(w) \/ SendAppend(w) \/ HandleWrite(w) \/ CloseTest(w) \/ JoinSelf(w)
      BY <1>1, <3>1 DEF SendCheck, SendAppend, HandleWrite, CloseTest, JoinSelf, Goto, Resume,
         Sound, Typed, TypeOK
    <3>2. CASE CloseMark(w)
      BY <1>1, <2>1, <3>2, MarkSets DEF Sound
    <3>3. CASE RemoveClient(w) \/ JoinHandler(w)
      <4>1. Victim(w) = w /\ HasHandler(w)
        BY <3>3, WorkerFindsItself DEF RemoveClient, JoinHandler, Removing
      <4>. QED
        BY <1>1, <3>3, <4>1 DEF RemoveClient, JoinHandler, Goto, Sound, Typed, TypeOK
    <3>. QED
      BY <1>1, <1>6, <3>1, <3>2, <3>3 DEF ConnStep, Disconnected
  <2>. QED
    BY <1>1, <1>2, <2>1, <2>2
<1>. QED
  BY <1>3, <1>4, <1>5, <1>6, WorkerMoves DEF Sound

(* A thread that stays where it is goes on adding to or removing from the  *)
(* same session.                                                           *)
LEMMA TargetStays ==
  ASSUME Typed, Next, NEW t \in Threads, Stays(t), pc[t] \in Removing \cup {"addClient"}
  PROVE  target'[t] = target[t]
<1>. USE DEF netVars, sessionVars, stopVars, requestUnchanged, workerUnchanged, stopUnchanged
<1>1. CASE \/ \E c \in Conns : Accept(c) \/ HandleEvent(c) \/ StopDisconnect(c)
           \/ HandleTriggerEvent \/ HandleRead \/ HandleError \/ OtherRequest \/ Setup \/ Play
           \/ Teardown \/ GetParameter \/ Stop \/ StopStep
  BY <1>1 DEF Accept, HandleEvent, StopDisconnect, HandleTriggerEvent, HandleRead, HandleError,
     OtherRequest, Setup, Play, Teardown, GetParameter, Stop, StopStep
<1>2. CASE \E s \in Sessions \cup {NoSession} : Describe(s)
  BY <1>2, DescribeSets DEF Describe, Removing, Stays, Typed, TypeOK
<1>3. CASE AddClient
  BY <1>3, ThreadsOf, ConstantsAssumption
     DEF AddClient, Stays, Typed, TypeOK, Workers, Removing
<1>4. ASSUME NEW u \in Threads, ConnStep(u)
      PROVE  target'[t] = target[t]
  <2>1. CASE SendCheck(u) \/ SendAppend(u) \/ HandleWrite(u) \/ CloseTest(u) \/ RemoveClient(u)
             \/ JoinHandler(u) \/ JoinSelf(u)
    BY <2>1 DEF SendCheck, SendAppend, HandleWrite, CloseTest, RemoveClient, JoinHandler, JoinSelf
  <2>2. CASE CloseMark(u) \/ Disconnected(u)
    <3>1. u # t
      BY <2>2, MarkSets DEF CloseMark, Disconnected, Removing
    <3>. QED
      BY <2>2, <3>1 DEF CloseMark, Disconnected, Typed, TypeOK
  <2>. QED
    BY <1>4, <2>1, <2>2 DEF ConnStep
<1>5. CASE \E w \in Workers : WorkerStep(w)
  BY <1>5 DEF WorkerStep, OpenVideo, CheckRunning, EndOfFile, SendFrame
<1>. QED
  BY <1>1, <1>2, <1>3, <1>4, <1>5 DEF Next, LoopStep, Request

(* The loop adds a client to the session it has described last.            *)
LEMMA AddsDescribedStep ==
  ASSUME Sound, WorksOnDescribed, Next
  PROVE  AddsDescribed'
<1>. SUFFICES ASSUME pc'[Loop] = "addClient"
              PROVE  target'[Loop] = sessionId'[serving']
  BY DEF AddsDescribed
<1>. USE DEF netVars, sessionVars, stopVars, requestUnchanged, workerUnchanged, stopUnchanged
<1>1. Stays(Loop) \/ \E s \in Sessions : Describe(s)
  <2>1. ASSUME (\E c \in Conns : HandleEvent(c)) \/ HandleTriggerEvent \/ AddClient
        PROVE  pc'[Loop] # "addClient"
    BY <2>1, ThreadsOf, ConstantsAssumption DEF HandleEvent, HandleTriggerEvent, AddClient, Sound, Typed,
       TypeOK, Workers
  <2>2. ASSUME HandleRead \/ HandleError \/ Request, ~\E s \in Sessions : Describe(s)
        PROVE  pc'[Loop] # "addClient"
    BY <2>2, ThreadsOf DEF Request, HandleRead, HandleError, OtherRequest, Setup, Play,
       Teardown, GetParameter, Describe, Goto, AnswerIfDescribed, Sound, Typed, TypeOK
  <2>3. ASSUME ConnStep(Loop)
        PROVE  Stays(Loop) \/ pc'[Loop] # "addClient"
    BY <2>3, ThreadsOf DEF ConnStep, SendCheck, SendAppend, HandleWrite, CloseTest, CloseMark,
       RemoveClient, JoinHandler, JoinSelf, Disconnected, Resume, Goto, Stays, ConnOf, Sound,
       Typed, TypeOK
  <2>. QED
    BY <2>1, <2>2, <2>3, LoopMoves DEF LoopStep, Sound
<1>2. CASE \E s \in Sessions : Describe(s)
  BY <1>2, DescribeSets, ThreadsOf DEF Sound, Typed, TypeOK
<1>3. CASE Stays(Loop) /\ ~\E s \in Sessions : Describe(s)
  <2>1. /\ pc[Loop] = "addClient" /\ serving' = serving /\ sessionId' = sessionId
        /\ target[Loop] = sessionId[serving]
    BY <1>3, SessionSteps DEF Stays, ConnOf, WorksOnDescribed, AddsDescribed
  <2>2. target'[Loop] = target[Loop]
    BY <1>3, <2>1, TargetStays, ThreadsOf DEF Sound
  <2>. QED
    BY <2>1, <2>2
<1>. QED
  BY <1>1, <1>2, <1>3

(* A thread that takes its connection out of a session takes it out of the *)
(* one the connection has described last.                                  *)
LEMMA RemovesDescribedStep ==
  ASSUME Sound, TcpDescribesOne, WorksOnDescribed, AliveHasEntry, Next
  PROVE  RemovesDescribed'
<1>. SUFFICES ASSUME NEW t \in Threads, pc'[t] \in Removing
              PROVE  target'[t] = sessionId'[ConnOf(t)'] /\ target'[t] \in Sessions
  BY DEF RemovesDescribed
<1>1. CASE CloseMark(t)
  <2>1. sessionId[ConnOf(t)] # NoSession
    BY <1>1, MarkSets DEF Sound, Removing
  <2>2. sessionId[ConnOf(t)] \in Sessions
    BY <1>1, <2>1, MarkSets DEF Sound, Typed, TypeOK
  <2>. QED
    BY <1>1, <2>2, MarkSets DEF Sound
<1>2. CASE RemoveClient(t)
  <2>1. /\ pc[t] \in Removing /\ target' = target /\ sessionId' = sessionId
        /\ \E label \in {"join", "disconnect"} : Goto(t, label)
    BY <1>2 DEF RemoveClient, Removing
  <2>2. ConnOf(t)' = ConnOf(t)
    BY <2>1, GotoMoves DEF Sound
  <2>. QED
    BY <2>1, <2>2 DEF WorksOnDescribed, RemovesDescribed
<1>3. CASE Stays(t)
  <2>1. /\ pc[t] \in Removing /\ ConnOf(t)' = ConnOf(t)
        /\ target[t] = sessionId[ConnOf(t)] /\ target[t] \in Sessions
    BY <1>3 DEF Stays, WorksOnDescribed, RemovesDescribed
  <2>2. target'[t] = target[t]
    BY <1>3, <2>1, TargetStays DEF Sound
  <2>3. ASSUME NEW s \in Sessions, Describe(s)
        PROVE  sessionId'[ConnOf(t)] = sessionId[ConnOf(t)]
    <3>1. t \in Workers /\ ConnOf(t) = t[2] /\ t[2] \in Conns
      BY <2>1, <2>3, ConstantsAssumption
         DEF Describe, Requesting, Removing, Threads, Workers, ConnOf
    <3>2. "tcp" \in Transports[t[2]]
      BY <2>1, <3>1 DEF WorksOnDescribed, StreamsAsTold, Removing, ClosePcs
    <3>3. sessionId[t[2]] \in Targets[t[2]]
      BY <2>1, <3>1, ConstantsAssumption DEF WorksOnDescribed, ConnsAsTold
    <3>4. CASE serving = t[2]
      <4>1. s = sessionId[t[2]]
        BY <2>3, <3>1, <3>2, <3>3, <3>4, DescribeSets DEF TcpDescribesOne, Sound
      <4>. QED
        BY <2>3, <3>1, <3>4, <4>1, DescribeSets DEF Sound, Typed, TypeOK
    <3>5. CASE serving # t[2]
      BY <2>3, <3>1, <3>5, DescribeSets DEF Sound, Typed, TypeOK
    <3>. QED
      BY <3>4, <3>5
  <2>. QED
    BY <2>1, <2>2, <2>3, SessionSteps
<1>. QED
  BY <1>1, <1>2, <1>3, RemovingMoves DEF Sound

(* While a connection is closed, a request of its is only handled until    *)
(* the worker that closes it has taken it out of the session.              *)
LEMMA RequestsAreOpenStep ==
  ASSUME Sound, TcpDescribesOne, WorksOnDescribed, AliveHasEntry, RequestsAreOpen, Next
  PROVE  RequestsAreOpen'
<1>. USE DEF Sound
<1>. SUFFICES ASSUME pc'[Loop] \in {"request", "addClient"}, isClosed'[serving']
              PROVE  \E s \in Sessions : pc'[<<s, serving'>>] \in Removing
  BY DEF RequestsAreOpen
<1>1. /\ pc[Loop] \in {"request", "addClient"} \/ (pc[Loop] = "read" /\ ~isClosed[serving])
      /\ serving' = serving /\ serving \in Conns
      /\ pc[Loop] = "read" => isClosed' = isClosed
  <2>1. ASSUME (\E c \in Conns : HandleEvent(c)) \/ HandleTriggerEvent \/ AddClient
        PROVE  pc'[Loop] \notin {"request", "addClient"}
    BY <2>1, ThreadsOf, ConstantsAssumption
       DEF HandleEvent, HandleTriggerEvent, AddClient, Typed, TypeOK, Workers
  <2>2. ASSUME HandleRead
        PROVE  pc[Loop] = "read" /\ ~isClosed[serving] /\ serving' = serving /\ isClosed' = isClosed
    BY <2>2, ThreadsOf DEF HandleRead, Goto, Typed, TypeOK
  <2>3. ASSUME Request
        PROVE  pc[Loop] = "request" /\ serving' = serving
    BY <2>3, ThreadsOf DEF Request, OtherRequest, Setup, Play, Teardown, GetParameter, Describe,
       Requesting, Goto, AnswerIfDescribed, Typed, TypeOK
  <2>4. ASSUME HandleError
        PROVE  pc'[Loop] \notin {"request", "addClient"}
    BY <2>4, ThreadsOf DEF HandleError, Goto, Typed, TypeOK
  <2>5. ASSUME ConnStep(Loop)
        PROVE  pc'[Loop] \notin {"request", "addClient"}
    BY <2>5, ThreadsOf DEF ConnStep, SendCheck, SendAppend, HandleWrite, CloseTest, CloseMark,
       RemoveClient, JoinHandler, JoinSelf, Disconnected, Resume, Goto, Typed, TypeOK
  <2>6. ASSUME Stays(Loop)
        PROVE  pc[Loop] \in {"request", "addClient"} /\ serving' = serving
    BY <2>6 DEF Stays, ConnOf
  <2>. QED
    BY <2>1, <2>2, <2>3, <2>4, <2>5, <2>6, LoopMoves DEF LoopStep, Typed, LoopServes
<1>2. CASE isClosed[serving]
  <2>. PICK s \in Sessions : pc[<<s, serving>>] \in Removing
    BY <1>1, <1>2 DEF RequestsAreOpen
  <2>. DEFINE w == <<s, serving>>
  <2>1. w \in Workers /\ w \in Threads
    BY <1>1, ThreadsOf DEF Workers
  <2>2. Victim(w) = w /\ HasHandler(w)
    BY <2>1, WorkerFindsItself
  <2>3. ASSUME RemoveClient(w)
        PROVE  pc'[w] \in Removing
    BY <2>1, <2>2, <2>3 DEF RemoveClient, Goto, Typed, TypeOK, Removing
  <2>4. ~JoinHandler(w)
    BY <2>2 DEF JoinHandler
  <2>5. pc'[w] \in Removing
    BY <2>1, <2>3, <2>4, RemovingMoves DEF Stays
  <2>. QED
    BY <1>1, <2>5
<1>3. CASE ~isClosed[serving]
  <2>. PICK t \in Threads : CloseMark(t)
    BY <1>1, <1>3, SessionSteps
  <2>1. ConnOf(t) = serving /\ pc[t] = "closing"
    BY <1>1, <1>3, MarkSets DEF Typed, TypeOK
  <2>2. t \in Workers /\ t = <<t[1], t[2]>> /\ t[2] = serving /\ t[1] \in Sessions
    <3>1. t # Loop
      BY <1>1, <2>1, MarkSets
    <3>. QED
      BY <2>1, <3>1 DEF Threads, Workers, ConnOf
  <2>3. sessionId[serving] # NoSession
    BY <2>1, <2>2 DEF WorksOnDescribed, StreamsAsTold
  <2>4. pc'[t] = "removeClient"
    BY <2>1, <2>3, MarkSets
  <2>. QED
    BY <1>1, <2>2, <2>4 DEF Removing
<1>. QED
  BY <1>2, <1>3

(* A stream starts only in AddClient.                                      *)
LEMMA AliveBefore ==
  ASSUME Typed, Next, NEW w \in Workers, Alive(w)'
  PROVE  Alive(w) \/ (AddClient /\ w = <<target[Loop], serving>> /\ pc'[w] # pc[w])
BY WorkerMoves DEF Alive, EndPcs, ConnStep, SendCheck, SendAppend,
   HandleWrite, CloseTest, CloseMark, RemoveClient, JoinHandler, JoinSelf, Disconnected,
   WorkerStep, OpenVideo, CheckRunning, EndOfFile, SendFrame

(* What AddClient does to a session without an entry for the descriptor.   *)
LEMMA AddSets ==
  ASSUME Typed, AddClient, Unknown(target[Loop], fdOf[serving])
  PROVE  /\ target[Loop] \in Sessions /\ serving \in Conns /\ fdOf[serving] \in Fds
         /\ \A s \in Sessions, fd \in Fds :
              clients'[s][fd] =
                IF s # target[Loop] THEN clients[s][fd]
                ELSE IF fd = fdOf[serving] THEN serving
                ELSE IF clients[s][fd] # NoConn /\ Live(clients[s][fd]) THEN clients[s][fd]
                ELSE NoConn
         /\ handlers' = handlers \cup {<<target[Loop], serving>>}
<1>1. /\ target[Loop] \in Sessions /\ serving \in Conns /\ fdOf[serving] \in Fds
      /\ clients[target[Loop]] \in [Fds -> Conns \cup {NoConn}]
  BY ConstantsAssumption DEF AddClient, Typed, TypeOK, LoopServes, AddsToSession, Accepted
<1>. DEFINE old == clients[target[Loop]]
            new == [fd \in Fds |->
                      CASE fd = fdOf[serving] -> serving
                        [] fd # fdOf[serving] /\ old[fd] # NoConn /\ Live(old[fd]) -> old[fd]
                        [] OTHER -> NoConn]
<1>2. clients' = [clients EXCEPT ![target[Loop]] = new] /\ handlers' = handlers \cup {<<target[Loop], serving>>}
  BY DEF AddClient
<1>3. \A fd \in Fds :
        new[fd] = IF fd = fdOf[serving] THEN serving
                  ELSE IF old[fd] # NoConn /\ Live(old[fd]) THEN old[fd] ELSE NoConn
  OBVIOUS
<1>. HIDE DEF new
<1>4. \A s \in Sessions : clients'[s] = IF s = target[Loop] THEN new ELSE clients[s]
  BY <1>1, <1>2 DEF Typed, TypeOK
<1>. QED
  BY <1>1, <1>2, <1>3, <1>4

(* What the removal of an entry does.                                      *)
LEMMA EraseSets ==
  ASSUME Typed, NEW t \in Threads, clients' = EraseEntry(t), NEW s \in Sessions, NEW fd \in Fds
  PROVE  clients'[s][fd] =
           IF s = target[t] /\ fd = fdOf[ConnOf(t)] THEN NoConn ELSE clients[s][fd]
BY DEF EraseEntry, Typed, TypeOK

(* A stream keeps its entry as long as its connection lives: the purge in  *)
(* AddClient spares the living, and a thread that removes an entry has     *)
(* ended the stream first.                                                 *)
LEMMA AliveHasEntryStep ==
  ASSUME Sound, OneLives, AliveHasEntry, Next
  PROVE  AliveHasEntry'
<1>. USE DEF Sound
<1>. SUFFICES ASSUME NEW s \in Sessions, NEW c \in Conns, Alive(<<s, c>>)', Live(c)'
              PROVE  clients'[s][fdOf'[c]] = c
  BY DEF AliveHasEntry
<1>. DEFINE w == <<s, c>>
<1>1. w \in Workers /\ w \in Threads
  BY ThreadsOf DEF Workers
<1>2. CASE AddClient /\ w = <<target[Loop], serving>> /\ pc'[w] # pc[w]
  <2>1. Unknown(target[Loop], fdOf[serving])
    BY <1>1, <1>2, ConstantsAssumption, ThreadsOf DEF AddClient, Typed, TypeOK, Workers
  <2>2. fdOf'[c] = fdOf[serving]
    BY <1>2 DEF AddClient, netVars
  <2>. QED
    BY <1>2, <2>1, <2>2, AddSets
<1>3. CASE Alive(w)
  <2>1. Accepted(c)
    BY <1>1, <1>3 DEF Typed, StartedIsAccepted, Alive
  <2>2. Live(c) /\ fdOf'[c] = fdOf[c] /\ fdOf[c] \in Fds
    BY <2>1, LiveBefore, AcceptedStays DEF Accepted, Typed, TypeOK
  <2>3. clients[s][fdOf[c]] = c
    BY <1>3, <2>2 DEF AliveHasEntry
  <2>4. CASE AddClient
    <3>1. CASE Unknown(target[Loop], fdOf[serving])
      BY <2>2, <2>3, <2>4, <3>1, AddSets, ConstantsAssumption DEF Unknown
    <3>2. CASE ~Unknown(target[Loop], fdOf[serving])
      BY <2>2, <2>3, <2>4, <3>2 DEF AddClient
    <3>. QED
      BY <3>1, <3>2
  <2>5. ASSUME NEW t \in Threads, RemoveClient(t)
        PROVE  clients'[s][fdOf[c]] = c
    <3>1. pc[t] \in Removing
      BY <2>5 DEF RemoveClient, Removing
    <3>2. CASE target[t] = s /\ fdOf[ConnOf(t)] = fdOf[c]
      <4>1. HasHandler(t)
        BY <1>3, <2>2, <3>1, <3>2, ErasesIdle
      <4>. QED
        BY <2>3, <2>5, <4>1 DEF RemoveClient
    <3>3. CASE clients' = EraseEntry(t) /\ ~(target[t] = s /\ fdOf[ConnOf(t)] = fdOf[c])
      BY <2>2, <2>3, <3>3, EraseSets
    <3>4. CASE clients' = clients
      BY <2>3, <3>4
    <3>. QED
      BY <2>5, <3>2, <3>3, <3>4 DEF RemoveClient
  <2>6. ASSUME NEW t \in Threads, JoinHandler(t)
        PROVE  clients'[s][fdOf[c]] = c
    <3>1. pc[t] \in Removing /\ clients' = EraseEntry(t)
      BY <2>6 DEF JoinHandler, Removing
    <3>2. CASE target[t] = s /\ fdOf[ConnOf(t)] = fdOf[c]
      <4>1. Victim(t) = w
        BY <1>3, <2>2, <3>1, <3>2, ErasesIdle
      <4>. QED
        BY <1>3, <2>6, <4>1 DEF JoinHandler, Ended, Alive
    <3>3. CASE ~(target[t] = s /\ fdOf[ConnOf(t)] = fdOf[c])
      BY <2>2, <2>3, <3>1, <3>3, EraseSets
    <3>. QED
      BY <3>2, <3>3
  <2>7. CASE clients' = clients
    BY <2>2, <2>3, <2>7
  <2>. QED
    BY <2>2, <2>4, <2>5, <2>6, <2>7, SessionSteps
<1>. QED
  BY <1>1, <1>2, <1>3, AliveBefore

(* The stream a closed connection has described last goes on only until    *)
(* the thread that closes the connection has ended it.                     *)
LEMMA ClosedIsOverStep ==
  ASSUME Sound, TcpDescribesOne, WorksOnDescribed, RequestsAreOpen, AliveHasEntry,
         OneLives, ClosedIsOver, Next
  PROVE  ClosedIsOver'
<1>. USE DEF Sound
<1>. SUFFICES ASSUME NEW c \in Conns, NEW s \in Sessions,
                     isClosed'[c], sessionId'[c] = s, Alive(<<s, c>>)'
              PROVE  \E t \in Threads : ConnOf(t)' = c /\ pc'[t] \in Removing
  BY DEF ClosedIsOver
<1>. DEFINE w == <<s, c>>
<1>1. w \in Workers
  BY DEF Workers
<1>2. ASSUME NEW t \in Threads, CloseMark(t), ConnOf(t) = c
      PROVE  ConnOf(t)' = c /\ pc'[t] \in Removing
  BY <1>2, MarkSets, ConstantsAssumption DEF Removing
<1>3. ASSUME NEW t \in Threads, ConnOf(t) = c, pc[t] \in Removing, ~JoinHandler(t),
             RemoveClient(t) => HasHandler(t)
      PROVE  ConnOf(t)' = c /\ pc'[t] \in Removing
  <2>1. CASE RemoveClient(t)
    <3>1. Goto(t, "join")
      BY <1>3, <2>1 DEF RemoveClient
    <3>. QED
      BY <1>3, <3>1, GotoMoves DEF Removing
  <2>2. CASE Stays(t)
    BY <1>3, <2>2 DEF Stays
  <2>. QED
    BY <1>3, <2>1, <2>2, RemovingMoves
<1>4. CASE ~isClosed[c]
  <2>. PICK t \in Threads : CloseMark(t)
    BY <1>4, SessionSteps
  <2>1. ConnOf(t) = c
    BY <1>4, MarkSets DEF Typed, TypeOK
  <2>. QED
    BY <1>2, <2>1
<1>5. CASE /\ isClosed[c]
           /\ \/ \E e \in Sessions : Describe(e) /\ serving = c
              \/ AddClient /\ serving = c
  <2>1. pc[Loop] \in {"request", "addClient"}
    BY <1>5 DEF Describe, Requesting, AddClient
  <2>. PICK e \in Sessions : pc[<<e, c>>] \in Removing
    BY <1>5, <2>1 DEF RequestsAreOpen
  <2>2. <<e, c>> \in Workers /\ <<e, c>> \in Threads
    BY ThreadsOf DEF Workers
  <2>3. Victim(<<e, c>>) = <<e, c>> /\ HasHandler(<<e, c>>) /\ ConnOf(<<e, c>>) = c
    BY <2>2, WorkerFindsItself
  <2>4. ~JoinHandler(<<e, c>>)
    BY <2>3 DEF JoinHandler
  <2>. QED
    BY <1>3, <2>2, <2>3, <2>4
<1>6. CASE isClosed[c] /\ sessionId'[c] = sessionId[c] /\ Alive(w)
  <2>. PICK t \in Threads : ConnOf(t) = c /\ pc[t] \in Removing
    BY <1>6 DEF ClosedIsOver
  <2>1. target[t] = s
    BY <1>6 DEF WorksOnDescribed, RemovesDescribed
  <2>2. Live(c)
    BY WorkingLives DEF Removing, ClosePcs
  <2>3. Victim(t) = w /\ HasHandler(t)
    BY <1>1, <1>6, <2>1, <2>2, ErasesIdle
  <2>4. ~JoinHandler(t)
    BY <1>6, <2>3 DEF JoinHandler, Ended, Alive
  <2>. QED
    BY <1>3, <2>3, <2>4
<1>7. (\E e \in Sessions : Describe(e) /\ serving = c) \/ sessionId'[c] = sessionId[c]
  BY SessionSteps, DescribeSets DEF Typed, TypeOK
<1>8. Alive(w) \/ (AddClient /\ serving = c)
  BY <1>1, AliveBefore
<1>. QED
  BY <1>4, <1>5, <1>6, <1>7, <1>8

(* The server starts with nothing described and nothing streamed.          *)
LEMMA InitBound == Init => Bound
<1>. SUFFICES ASSUME Init PROVE Bound
  OBVIOUS
<1>1. /\ pc[Loop] = "idle" /\ \A w \in Workers : pc[w] = "none"
      /\ \A t \in Threads : pc[t] \in {"idle", "none"}
  BY ConstantsAssumption, ThreadsOf DEF Init, Workers, Threads
<1>2. ConnsAsTold
  BY DEF Init, ConnsAsTold, NoRtp
<1>3. StreamsAsTold /\ AddsDescribed /\ RemovesDescribed /\ RequestsAreOpen
  BY <1>1 DEF StreamsAsTold, AddsDescribed, RemovesDescribed, RequestsAreOpen, SendPcs,
     ClosePcs, Removing
<1>4. \A c \in Conns : ~Live(c)
  BY DEF Init, Live
<1>5. \A s \in Sessions, c \in Conns : ~Alive(<<s, c>>)
  BY <1>1 DEF Alive, Workers
<1>. QED
  BY <1>2, <1>3, <1>4, <1>5 DEF Bound, WorksOnDescribed, OneLives, AliveHasEntry, ClosedIsOver

(* A step that changes nothing keeps what lives and its entries.           *)
LEMMA LivesStutter ==
  ASSUME OneLives, AliveHasEntry, UNCHANGED vars
  PROVE  OneLives' /\ AliveHasEntry'
BY DEF vars, netVars, sessionVars, stopVars, OneLives, AliveHasEntry, Live, Holds, ConnOf, Alive

(* A step that changes nothing keeps everything.                           *)
LEMMA BoundStutter ==
  ASSUME Bound, UNCHANGED vars
  PROVE  Bound'
<1>. USE DEF vars, netVars, sessionVars, stopVars
<1>1. WorksOnDescribed'
  BY DEF Bound, WorksOnDescribed, ConnsAsTold, StreamsAsTold, AddsDescribed, RemovesDescribed,
     Accepted, ConnOf
<1>2. RequestsAreOpen' /\ ClosedIsOver'
  BY DEF Bound, RequestsAreOpen, ClosedIsOver, ConnOf, Alive
<1>3. OneLives' /\ AliveHasEntry'
  BY LivesStutter DEF Bound
<1>. QED
  BY <1>1, <1>2, <1>3 DEF Bound

(* All of this holds for good.                                             *)
LEMMA AlwaysBound ==
  ASSUME StopsOverUdp, TcpDescribesOne
  PROVE  Spec => []Bound
<1>1. Sound /\ Sound' /\ Bound /\ [Next]_vars => Bound'
  BY BoundStutter, ConnsAsToldStep, StreamsAsToldStep, AddsDescribedStep, RemovesDescribedStep,
     RequestsAreOpenStep, OneLivesStep, AliveHasEntryStep, ClosedIsOverStep
     DEF Bound, WorksOnDescribed, Sound
<1>2. Spec => []Sound
  BY AlwaysTyped, AlwaysOrderly, HandlerSafe, PTL DEF Sound
<1>. QED
  BY <1>1, <1>2, InitBound, PTL DEF Spec

(* At most one thread moves in a step other than AddClient, and none that  *)
(* works on a connection when the loop takes an event off the queue.       *)
LEMMA OneMoves ==
  ASSUME Typed, Next, ~AddClient
  PROVE  /\ \E t \in Threads : \A u \in Threads : u # t => Stays(u)
         /\ HandleTriggerEvent => \A u \in Threads : Stays(u) \/ (u = Loop /\ pc[u] = "idle")
<1>. USE DEF netVars, sessionVars, stopVars, requestUnchanged, workerUnchanged, stopUnchanged
<1>1. ASSUME NEW t \in Threads, NEW label, Goto(t, label)
      PROVE  \A u \in Threads : u # t => Stays(u)
  BY <1>1, GotoMoves
<1>2. ASSUME HandleTriggerEvent
      PROVE  \A u \in Threads : Stays(u) \/ (u = Loop /\ pc[u] = "idle")
  <2>1. CASE UNCHANGED <<pc, serving>>
    BY <2>1 DEF Stays, ConnOf
  <2>2. CASE pc' = [pc EXCEPT ![Loop] = "close"] /\ pc[Loop] = "idle"
    BY <2>2 DEF Stays, ConnOf, Typed, TypeOK
  <2>. QED
    BY <1>2, <2>1, <2>2, TriggerTaken
<1>3. ASSUME NEW c \in Conns, HandleEvent(c)
      PROVE  \A u \in Threads : u # Loop => Stays(u)
  BY <1>3, ThreadsOf DEF HandleEvent, Stays, ConnOf, Typed, TypeOK
<1>4. CASE \E c \in Conns : Accept(c)
  BY <1>4, ThreadsOf DEF Accept, Stays, ConnOf
<1>5. ASSUME HandleRead \/ HandleError \/ Request
      PROVE  \E label \in LoopPcs : Goto(Loop, label)
  BY <1>5 DEF HandleRead, HandleError, Request, OtherRequest, Setup, Play, Teardown,
     GetParameter, Describe, AnswerIfDescribed, LoopPcs, SendPcs, ClosePcs
<1>6. ASSUME NEW t \in Threads, ConnStep(t), ~JoinSelf(t)
      PROVE  \E label \in LoopPcs \cup WorkerPcs : Goto(t, label)
  BY <1>6, Labels DEF ConnStep, SendCheck, SendAppend, HandleWrite, CloseTest, CloseMark,
     RemoveClient, JoinHandler, Disconnected, Resume
<1>7. ASSUME NEW t \in Threads, JoinSelf(t)
      PROVE  \A u \in Threads : Stays(u)
  BY <1>7 DEF JoinSelf, Stays, ConnOf
<1>8. ASSUME NEW w \in Workers, WorkerStep(w)
      PROVE  \E label \in LoopPcs \cup WorkerPcs : Goto(w, label)
  BY <1>8, Labels DEF WorkerStep, OpenVideo, CheckRunning, EndOfFile, SendFrame
<1>9. ASSUME Stop \/ StopStep \/ \E c \in Conns : StopDisconnect(c)
      PROVE  \A u \in Threads : Stays(u)
  BY <1>9 DEF Stop, StopStep, StopDisconnect, Stays, ConnOf
<1>. QED
  BY <1>1, <1>2, <1>3, <1>4, <1>5, <1>6, <1>7, <1>8, <1>9, ThreadsOf DEF Next, LoopStep

(* A connection is released by RemoveConnection or by the last thread that *)
(* works on it.                                                            *)
LEMMA LosesLife ==
  ASSUME Sound, Sound', AliveHasEntry, Next, NEW c \in Conns, Live(c), ~Live(c)'
  PROVE  \/ HandleTriggerEvent /\ connections[triggers[1].fd] = c
         \/ \E t \in Threads : Holds(t, c) /\ ~Stays(t) /\ pc'[t] = Resume(t)
<1>. USE DEF Sound
<1>1. /\ fdOf[c] \in Fds /\ fdOf'[c] = fdOf[c]
      /\ connections'[fdOf[c]] # c /\ ~CloseQueued(c)' /\ \A t \in Threads : ~Holds(t, c)'
  <2>1. fdOf[c] # NoFd
    BY DEF Live
  <2>2. fdOf'[c] = fdOf[c] /\ fdOf[c] \in Fds
    BY <2>1, AcceptedStays DEF Typed, TypeOK
  <2>. QED
    BY <2>1, <2>2, LiveWhenNext
<1>2. CASE connections[fdOf[c]] = c
  <2>1. ~\E d \in Conns : Accept(d)
    BY <1>1, <1>2, ConstantsAssumption DEF Accept, FreeFds, Typed, TypeOK
  <2>2. HandleTriggerEvent
    BY <1>1, <1>2, <2>1, NetStep
  <2>3. triggers # <<>> /\ Head(triggers) = triggers[1]
    BY <2>2 DEF HandleTriggerEvent, Typed, TypeOK
  <2>4. connections' = connections \/ connections' = [connections EXCEPT ![triggers[1].fd] = NoConn]
    BY <2>2, <2>3 DEF HandleTriggerEvent
  <2>. QED
    BY <1>1, <1>2, <2>2, <2>4 DEF Typed, TypeOK
<1>3. CASE CloseQueued(c)
  <2>1. HandleTriggerEvent /\ triggers[1] = CloseEvent(c)
    BY <1>1, <1>3, QueuedUntilTaken DEF CloseQueued, Queued
  <2>2. serving' = c /\ pc'[Loop] = "close"
    BY <2>1, TriggerTaken, EventsDiffer, ThreadsOf DEF Typed, TypeOK
  <2>. QED
    BY <1>1, <2>2, ThreadsOf DEF Holds, ConnOf
<1>4. ASSUME NEW t \in Threads, Holds(t, c)
      PROVE  ~Stays(t) /\ pc'[t] = Resume(t)
  <2>1. ~Stays(t)
    BY <1>1, <1>4 DEF Stays, Holds
  <2>2. CASE t = Loop
    <3>1. pc[Loop] # "idle" /\ ~(pc'[Loop] # "idle" /\ serving' = serving)
      BY <1>1, <1>4, <2>2 DEF Holds, ConnOf
    <3>2. ~HandleTriggerEvent /\ \A d \in Conns : ~HandleEvent(d)
      BY <3>1 DEF HandleTriggerEvent, HandleEvent
    <3>3. ASSUME LoopStep \/ ConnStep(Loop)
          PROVE  serving' = serving \/ pc'[Loop] = "idle"
      BY <3>3, ThreadsOf DEF LoopStep, Request, HandleRead, HandleError, OtherRequest, Setup,
         Play, Teardown, GetParameter, Describe, AddClient, Requesting, Goto, AnswerIfDescribed,
         ConnStep, SendCheck, SendAppend, HandleWrite, CloseTest, CloseMark, RemoveClient,
         JoinHandler, JoinSelf, Disconnected, Typed, TypeOK
    <3>. QED
      BY <2>1, <2>2, <3>1, <3>2, <3>3, LoopMoves DEF Resume
  <2>3. CASE t \in Workers
    <3>1. /\ t # Loop /\ ConnOf(t) = c /\ ConnOf(t)' = c
          /\ pc[t] \in SendPcs \cup ClosePcs /\ pc'[t] \notin SendPcs \cup ClosePcs
          /\ pc'[t] # pc[t]
      BY <1>1, <1>4, <2>3, ConstantsAssumption DEF Holds, ConnOf, Workers
    <3>2. ~WorkerStep(t)
      BY <3>1 DEF WorkerStep, OpenVideo, CheckRunning, EndOfFile, SendFrame, SendPcs, ClosePcs
    <3>3. ASSUME AddClient, t = <<target[Loop], serving>>
          PROVE  FALSE
      <4>1. Unknown(target[Loop], fdOf[serving])
        BY <2>3, <3>1, <3>3, ThreadsOf DEF AddClient, Typed, TypeOK
      <4>. QED
        BY <3>1, <3>3, <4>1, UnknownIsIdle DEF Alive, EndPcs, SendPcs, ClosePcs
    <3>4. ASSUME ConnStep(t)
          PROVE  pc'[t] \in SendPcs \cup ClosePcs \cup {"check"}
      BY <3>1, <3>4 DEF ConnStep, SendCheck, SendAppend, HandleWrite, CloseTest, CloseMark,
         RemoveClient, JoinHandler, JoinSelf, Disconnected, Goto, Resume, SendPcs, ClosePcs,
         Typed, TypeOK
    <3>. QED
      BY <2>1, <2>3, <3>1, <3>2, <3>3, <3>4, WorkerMoves DEF Resume
  <2>. QED
    BY <2>2, <2>3 DEF Threads
<1>. QED
  BY <1>1, <1>2, <1>3, <1>4, LiveWhen

(* A descriptor's owner is the living connection that has it.              *)
LEMMA OwnerIs ==
  ASSUME OneLives, NEW c \in Conns, Live(c)
  PROVE  Owner(fdOf[c]) = c
<1>1. {d \in Conns : Live(d) /\ fdOf[d] = fdOf[c]} = {c}
  BY DEF OneLives
<1>. QED
  BY <1>1 DEF Owner

(* So it is after a step.                                                  *)
LEMMA OwnerIsNext ==
  ASSUME OneLives', NEW c \in Conns, Live(c)', NEW fd, fdOf'[c] = fd
  PROVE  Owner(fd)' = c
<1>1. {d \in Conns : Live(d)' /\ fdOf'[d] = fd} = {c}
  BY DEF OneLives
<1>. QED
  BY <1>1 DEF Owner

(* A free descriptor has no owner.                                         *)
LEMMA OwnerIsNone ==
  ASSUME NEW fd, \A d \in Conns : Live(d) => fdOf[d] # fd
  PROVE  Owner(fd) = NoConn
<1>1. {d \in Conns : Live(d) /\ fdOf[d] = fd} = {}
  OBVIOUS
<1>. QED
  BY <1>1 DEF Owner

(* So it is after a step.                                                  *)
LEMMA OwnerIsNoneNext ==
  ASSUME NEW fd, \A d \in Conns : Live(d)' => fdOf'[d] # fd
  PROVE  Owner(fd)' = NoConn
<1>1. {d \in Conns : Live(d)' /\ fdOf'[d] = fd} = {}
  OBVIOUS
<1>. QED
  BY <1>1 DEF Owner

(* An owner stays the owner while the same connections live.               *)
LEMMA OwnerStays ==
  ASSUME OneLives, OneLives', NEW fd,
         \A d \in Conns : Live(d)' /\ fdOf'[d] = fd <=> Live(d) /\ fdOf[d] = fd
  PROVE  Owner(fd)' = Owner(fd)
<1>1. ASSUME NEW d \in Conns, Live(d), fdOf[d] = fd
      PROVE  Owner(fd)' = d /\ Owner(fd) = d
  <2>1. Owner(fdOf[d]) = d
    BY <1>1, OwnerIs
  <2>. QED
    BY <1>1, <2>1, OwnerIsNext
<1>2. ASSUME \A d \in Conns : Live(d) => fdOf[d] # fd
      PROVE  Owner(fd)' = NoConn /\ Owner(fd) = NoConn
  BY <1>2, OwnerIsNone, OwnerIsNoneNext
<1>. QED
  BY <1>1, <1>2

(* The state of StreamRegistry that stands for a state of the server.      *)
phaseMap == [c \in Conns |-> Phase(c)]
ownerMap == [fd \in Fds |-> Owner(fd)]

(* A phase changes when a connection is accepted, closed or released.      *)
LEMMA PhaseStays ==
  ASSUME NEW c \in Conns, fdOf'[c] = fdOf[c], isClosed'[c] = isClosed[c], Live(c)' <=> Live(c)
  PROVE  Phase(c)' = Phase(c)
<1>1. (Accepted(c)' <=> Accepted(c)) /\ (Open(c)' <=> Open(c))
  BY DEF Accepted, Open
<1>. QED
  BY <1>1 DEF Phase

(* The streams change when a worker starts or ends.                        *)
LEMMA StreamsStay ==
  ASSUME \A w \in Workers : Alive(w)' <=> Alive(w)
  PROVE  Streaming' = Streaming
BY DEF Streaming

(* A new connection is a Connect.                                          *)
LEMMA AcceptConnects ==
  ASSUME Sound, Sound', Bound, Bound', Next, NEW c \in Conns, Accept(c)
  PROVE  \E fd \in Fds : Registry!Connect(c, fd)
<1>. USE DEF Sound, Bound
<1>. PICK fd \in FreeFds :
       /\ fdOf' = [fdOf EXCEPT ![c] = fd]
       /\ connections' = [connections EXCEPT ![fd] = IF @ = NoConn THEN c ELSE @]
  BY DEF Accept
<1>1. /\ fd \in Fds /\ fdOf[c] = NoFd /\ \A d \in Conns : Live(d) => fdOf[d] # fd
      /\ UNCHANGED <<isClosed, sessionId, pc, serving>> /\ pc[Loop] = "idle"
  BY DEF FreeFds, Accept
<1>2. /\ fdOf'[c] = fd /\ fdOf'[c] # NoFd
      /\ \A d \in Conns : d # c => fdOf'[d] = fdOf[d]
  BY <1>1, ConstantsAssumption DEF Typed, TypeOK
<1>3. ~isClosed[c] /\ ~Live(c)
  BY <1>1 DEF WorksOnDescribed, ConnsAsTold, Accepted, Live
<1>4. Phase(c) = "new" /\ Phase(c)' = "open"
  BY <1>1, <1>2, <1>3 DEF Phase, Open, Accepted
<1>5. ~HandleTriggerEvent /\ \A t \in Threads : Stays(t)
  <2>1. \A t \in Threads : Stays(t)
    BY <1>1 DEF Stays, ConnOf
  <2>2. triggers' = triggers
    BY DEF Accept
  <2>3. HandleTriggerEvent => triggers' # triggers
    <3>1. ASSUME triggers # <<>>, triggers \in Seq(TriggerEvents)
          PROVE  Tail(triggers) # triggers
      BY <3>1
    <3>. QED
      BY <3>1 DEF HandleTriggerEvent, Typed, TypeOK
  <2>. QED
    BY <2>1, <2>2, <2>3
<1>6. \A d \in Conns : d # c => (Live(d)' <=> Live(d))
  <2>. TAKE d \in Conns
  <2>. HAVE d # c
  <2>1. Live(d) => Live(d)'
    BY <1>5, LosesLife
  <2>2. Live(d)' => Accepted(d)
    BY <1>2, LiveWhenNext DEF Accepted
  <2>. QED
    BY <2>1, <2>2, LiveBefore
<1>7. Live(c)'
  <2>1. Open(c)'
    BY <1>1, <1>2, <1>3 DEF Open, Accepted
  <2>. QED
    BY <1>2, <2>1, LiveWhenNext DEF Orderly, OpenStaysRegistered
<1>8. phaseMap' = [phaseMap EXCEPT ![c] = "open"]
  <2>1. \A d \in Conns : d # c => Phase(d)' = Phase(d)
    BY <1>1, <1>2, <1>6, PhaseStays
  <2>. QED
    BY <1>4, <2>1 DEF phaseMap
<1>9. ownerMap' = [ownerMap EXCEPT ![fd] = c]
  <2>1. Owner(fd)' = c
    BY <1>2, <1>7, OwnerIsNext
  <2>2. \A f \in Fds : f # fd => Owner(f)' = Owner(f)
    BY <1>2, <1>3, <1>6, OwnerStays
  <2>. QED
    BY <1>1, <2>1, <2>2 DEF ownerMap
<1>10. Owner(fd) = NoConn
  BY <1>1, OwnerIsNone
<1>11. Streaming' = Streaming
  BY <1>1, StreamsStay DEF Alive
<1>. QED
  BY <1>1, <1>4, <1>8, <1>9, <1>10, <1>11 DEF Registry!Connect, phaseMap, ownerMap

(* While no connection is accepted, none comes to life.                    *)
LEMMA LivesOn ==
  ASSUME Sound, Sound', Next, fdOf' = fdOf, NEW c \in Conns, Live(c)'
  PROVE  Live(c)
<1>1. Accepted(c)
  BY LiveWhenNext DEF Accepted
<1>. QED
  BY <1>1, LiveBefore DEF Sound

(* A step that releases nobody keeps the owners; what it says of the       *)
(* phases depends on who has been closed.                                  *)
LEMMA OwnersStay ==
  ASSUME OneLives, OneLives', fdOf' = fdOf, \A c \in Conns : Live(c)' <=> Live(c)
  PROVE  ownerMap' = ownerMap
BY OwnerStays DEF ownerMap

(* A step that marks nobody closed either keeps the phases.                *)
LEMMA PhasesStay ==
  ASSUME fdOf' = fdOf, isClosed' = isClosed, \A c \in Conns : Live(c)' <=> Live(c)
  PROVE  phaseMap' = phaseMap
BY PhaseStays DEF phaseMap

(* A step that accepts, describes, starts, ends and closes nothing at most *)
(* releases a connection, and then the stream described last is over.      *)
LEMMA ReleasesOrStays ==
  ASSUME Sound, Sound', Bound, Bound', Next, ~AddClient,
         UNCHANGED <<fdOf, isClosed, sessionId>>,
         \A w \in Workers : Alive(w)' <=> Alive(w)
  PROVE  \/ UNCHANGED <<phaseMap, ownerMap, sessionId, Streaming>>
         \/ \E c \in Conns, fd \in Fds : Registry!Release(c, fd)
<1>. USE DEF Sound, Bound
<1>1. Streaming' = Streaming
  BY StreamsStay
<1>2. CASE \A c \in Conns : Live(c) => Live(c)'
  <2>1. \A c \in Conns : Live(c)' <=> Live(c)
    BY <1>2, LivesOn
  <2>. QED
    BY <1>1, <2>1, OwnersStay, PhasesStay
<1>3. ASSUME NEW c \in Conns, Live(c), ~Live(c)'
      PROVE  Registry!Release(c, fdOf[c]) /\ fdOf[c] \in Fds
  <2>1. Accepted(c) /\ fdOf[c] \in Fds
    BY <1>3 DEF Live, Accepted, Typed, TypeOK
  <2>2. isClosed[c]
    <3>1. ~Open(c)'
      BY <1>3, <2>1, LiveWhenNext DEF Orderly, OpenStaysRegistered, Open, Accepted
    <3>. QED
      BY <2>1, <3>1 DEF Open, Accepted
  <2>3. ASSUME NEW d \in Conns, d # c, Live(d)
        PROVE  Live(d)'
    <3>. SUFFICES ASSUME ~Live(d)' PROVE FALSE
      OBVIOUS
    <3>1. CASE HandleTriggerEvent
      <4>1. connections[triggers[1].fd] = c
        BY <1>3, <3>1, LosesLife, OneMoves DEF Holds
      <4>2. connections[triggers[1].fd] = d
        BY <2>3, <3>1, LosesLife, OneMoves DEF Holds
      <4>. QED
        BY <2>3, <4>1, <4>2
    <3>2. CASE ~HandleTriggerEvent
      <4>1. PICK t \in Threads : Holds(t, c) /\ ~Stays(t)
        BY <1>3, <3>2, LosesLife
      <4>2. PICK u \in Threads : Holds(u, d) /\ ~Stays(u)
        BY <2>3, <3>2, LosesLife
      <4>3. t = u
        BY <4>1, <4>2, OneMoves
      <4>. QED
        BY <2>3, <4>1, <4>2, <4>3 DEF Holds
    <3>. QED
      BY <3>1, <3>2
  <2>4. <<sessionId[c], c>> \notin Streaming
    <3>. SUFFICES ASSUME <<sessionId[c], c>> \in Workers, Alive(<<sessionId[c], c>>)
                  PROVE  FALSE
      BY DEF Streaming
    <3>1. sessionId[c] \in Sessions
      BY DEF Workers
    <3>. DEFINE s == sessionId[c]
    <3>2. /\ isClosed'[c] /\ sessionId'[c] = s /\ Alive(<<s, c>>)'
      BY <2>2
    <3>. HIDE DEF s
    <3>3. PICK t \in Threads : ConnOf(t)' = c /\ pc'[t] \in Removing
      BY <3>1, <3>2 DEF ClosedIsOver, s
    <3>4. Holds(t, c)'
      BY <3>3 DEF Holds, Removing, ClosePcs
    <3>. QED
      BY <1>3, <2>1, <3>4, LiveWhenNext DEF Accepted
  <2>5. Phase(c) = "closed" /\ Phase(c)' = "gone"
    BY <1>3, <2>1, <2>2 DEF Phase, Open, Accepted
  <2>6. \A d \in Conns : d # c => (Live(d)' <=> Live(d))
    BY <2>3, LivesOn
  <2>7. phaseMap' = [phaseMap EXCEPT ![c] = "gone"]
    <3>1. \A d \in Conns : d # c => Phase(d)' = Phase(d)
      BY <2>6, PhaseStays
    <3>. QED
      BY <2>5, <3>1 DEF phaseMap
  <2>8. Owner(fdOf[c]) = c
    BY <1>3, OwnerIs
  <2>9. ownerMap' = [ownerMap EXCEPT ![fdOf[c]] = NoConn]
    <3>1. Owner(fdOf[c])' = NoConn
      <4>1. \A d \in Conns : Live(d)' => fdOf'[d] # fdOf[c]
        BY <1>3, LivesOn DEF OneLives
      <4>. QED
        BY <1>3, <2>1, <4>1, OwnerIsNoneNext
    <3>2. \A f \in Fds : f # fdOf[c] => Owner(f)' = Owner(f)
      BY <2>6, OwnerStays
    <3>. QED
      BY <2>1, <3>1, <3>2 DEF ownerMap
  <2>. QED
    BY <1>1, <2>1, <2>4, <2>5, <2>7, <2>8, <2>9 DEF Registry!Release, phaseMap, ownerMap
<1>. QED
  BY <1>2, <1>3

(* A DESCRIBE is a Describe while the connection is open; one handled      *)
(* while a worker closes the connection names the same session again.      *)
LEMMA DescribeDescribes ==
  ASSUME Sound, Sound', Bound, Bound', TcpDescribesOne, Next,
         NEW s \in Sessions, Describe(s)
  PROVE  \/ UNCHANGED <<phaseMap, ownerMap, sessionId, Streaming>>
         \/ \E c \in Conns : Registry!Describe(c, s)
<1>. USE DEF Sound, Bound
<1>. DEFINE c == serving
<1>1. /\ c \in Conns /\ Accepted(c) /\ s \in Targets[c] /\ pc[Loop] = "request"
      /\ pc'[Loop] = "addClient" /\ serving' = c
      /\ sessionId' = [sessionId EXCEPT ![c] = s]
      /\ \A w \in Workers : pc'[w] = pc[w]
      /\ UNCHANGED <<fdOf, isClosed>>
  BY DescribeSets
<1>2. \A d \in Conns : Live(d)' <=> Live(d)
  <2>1. ~HandleTriggerEvent
    BY <1>1 DEF HandleTriggerEvent
  <2>2. \A t \in Threads : pc'[t] # Resume(t) \/ Stays(t)
    BY <1>1, ConstantsAssumption DEF Threads, Stays, ConnOf, Workers, Resume
  <2>. QED
    BY <1>1, <2>1, <2>2, LosesLife, LivesOn
<1>3. phaseMap' = phaseMap /\ ownerMap' = ownerMap
  BY <1>1, <1>2, PhasesStay, OwnersStay
<1>4. Streaming' = Streaming
  BY <1>1, StreamsStay DEF Alive
<1>5. CASE isClosed[c]
  <2>. PICK e \in Sessions : pc[<<e, c>>] \in Removing
    BY <1>1, <1>5 DEF RequestsAreOpen
  <2>1. <<e, c>> \in Workers /\ <<e, c>> \in Threads /\ ConnOf(<<e, c>>) = c
    BY <1>1, ConstantsAssumption, ThreadsOf DEF Workers, ConnOf
  <2>2. "tcp" \in Transports[c] /\ sessionId[c] \in Targets[c]
    <3>1. "tcp" \in Transports[c] /\ sessionId[c] # NoSession
      BY <2>1 DEF WorksOnDescribed, StreamsAsTold, Removing, ClosePcs
    <3>. QED
      BY <1>1, <3>1 DEF WorksOnDescribed, ConnsAsTold
  <2>3. s = sessionId[c]
    BY <1>1, <2>2 DEF TcpDescribesOne
  <2>4. sessionId' = sessionId
    BY <1>1, <2>3 DEF Typed, TypeOK
  <2>. QED
    BY <1>3, <1>4, <2>4
<1>6. CASE ~isClosed[c]
  <2>1. phaseMap[c] = "open"
    BY <1>1, <1>6 DEF phaseMap, Phase, Open
  <2>. QED
    BY <1>1, <1>3, <1>4, <2>1 DEF Registry!Describe, phaseMap, ownerMap
<1>. QED
  BY <1>5, <1>6

(* A client gets its handler while its connection is open.                 *)
LEMMA AddIsOpen ==
  ASSUME Sound, Bound, TcpDescribesOne, AddClient, Unknown(target[Loop], fdOf[serving])
  PROVE  ~isClosed[serving]
<1>. USE DEF Sound, Bound
<1>. SUFFICES ASSUME isClosed[serving] PROVE FALSE
  OBVIOUS
<1>1. serving \in Conns /\ pc[Loop] = "addClient"
  BY AddSets DEF AddClient
<1>. PICK e \in Sessions : pc[<<e, serving>>] \in Removing
  BY <1>1 DEF RequestsAreOpen
<1>. DEFINE w == <<e, serving>>
<1>2. w \in Workers /\ w \in Threads
  BY <1>1, ThreadsOf DEF Workers
<1>3. target[w] = e /\ ConnOf(w) = serving
  BY <1>2, WorkerFindsItself
<1>4. e = target[Loop]
  BY <1>1, <1>2, <1>3 DEF WorksOnDescribed, RemovesDescribed, AddsDescribed
<1>. QED
  BY <1>4, UnknownIsIdle DEF Alive, Removing, EndPcs

(* AddClient begins a stream of the session an open connection described   *)
(* last, or does nothing.                                                  *)
LEMMA AddBegins ==
  ASSUME Sound, Sound', Bound, Bound', TcpDescribesOne, Next, AddClient
  PROVE  \/ UNCHANGED <<phaseMap, ownerMap, sessionId, Streaming>>
         \/ \E c \in Conns, s \in Sessions : Registry!Begin(s, c)
<1>. USE DEF Sound, Bound
<1>. DEFINE c == serving
            s == target[Loop]
            w == <<s, c>>
<1>1. /\ c \in Conns /\ Accepted(c) /\ s \in Sessions /\ s = sessionId[c]
      /\ pc[Loop] = "addClient" /\ pc'[Loop] = "send"
      /\ w \in Workers /\ w \in Threads /\ w # Loop
      /\ \A v \in Workers : v # w => pc'[v] = pc[v]
      /\ UNCHANGED <<fdOf, isClosed, sessionId, serving>>
  BY ConstantsAssumption, ThreadsOf DEF AddClient, Typed, TypeOK, LoopServes, AddsToSession,
     WorksOnDescribed, AddsDescribed, Workers, netVars
<1>2. CASE ~Unknown(s, fdOf[c])
  <2>1. pc'[w] = pc[w]
    BY <1>1, <1>2 DEF AddClient, Typed, TypeOK
  <2>2. \A d \in Conns : Live(d)' <=> Live(d)
    <3>1. ~HandleTriggerEvent
      BY <1>1 DEF HandleTriggerEvent
    <3>2. \A t \in Threads : pc'[t] # Resume(t) \/ Stays(t)
      BY <1>1, <2>1, ConstantsAssumption DEF Threads, Stays, ConnOf, Workers, Resume
    <3>. QED
      BY <1>1, <3>1, <3>2, LosesLife, LivesOn
  <2>3. Streaming' = Streaming
    BY <1>1, <2>1, StreamsStay DEF Alive
  <2>. QED
    BY <1>1, <2>2, <2>3, PhasesStay, OwnersStay
<1>3. CASE Unknown(s, fdOf[c])
  <2>1. ~Alive(w) /\ pc'[w] = "open"
    BY <1>1, <1>3, UnknownIsIdle DEF AddClient, Typed, TypeOK
  <2>2. \A d \in Conns : Live(d)' <=> Live(d)
    <3>1. ~HandleTriggerEvent
      BY <1>1 DEF HandleTriggerEvent
    <3>2. \A t \in Threads : pc'[t] # Resume(t) \/ Stays(t)
      BY <1>1, <2>1, ConstantsAssumption DEF Threads, Stays, ConnOf, Workers, Resume
    <3>. QED
      BY <1>1, <3>1, <3>2, LosesLife, LivesOn
  <2>3. ~isClosed[c]
    BY <1>3, AddIsOpen
  <2>4. Streaming' = Streaming \cup {w} /\ w \notin Streaming
    BY <1>1, <2>1 DEF Streaming, Alive, EndPcs
  <2>5. phaseMap[c] = "open" /\ phaseMap' = phaseMap /\ ownerMap' = ownerMap
    BY <1>1, <2>2, <2>3, PhasesStay, OwnersStay DEF phaseMap, Phase, Open
  <2>. QED
    BY <1>1, <2>4, <2>5 DEF Registry!Begin, phaseMap, ownerMap
<1>. QED
  BY <1>2, <1>3

(* CloseMark is a Close.                                                   *)
LEMMA MarkCloses ==
  ASSUME Sound, Sound', Bound, Bound', Next, NEW t \in Threads, CloseMark(t)
  PROVE  \E c \in Conns : Registry!Close(c)
<1>. USE DEF Sound, Bound
<1>. PICK c \in Conns : c = ConnOf(t)
  BY MarkSets
<1>1. /\ c \in Conns /\ Accepted(c) /\ pc[t] = "closing"
      /\ isClosed' = [isClosed EXCEPT ![c] = TRUE]
      /\ pc'[t] \in {"disconnect", "removeClient"}
      /\ \A u \in Threads : u # t => Stays(u)
      /\ UNCHANGED <<fdOf, connections, sessionId>>
  BY MarkSets
<1>2. ~isClosed[c] /\ Live(c)
  BY <1>1, WorkingLives DEF Orderly, ClosesOnlyOpen, ClosePcs
<1>3. \A d \in Conns : Live(d)' <=> Live(d)
  <2>1. ~AddClient
    <3>1. pc'[t] # pc[t] /\ pc'[t] \notin {"send", "open"} /\ t \in Threads
      BY <1>1
    <3>. QED
      BY <3>1, ThreadsOf DEF AddClient, Typed, TypeOK
  <2>2. ~HandleTriggerEvent
    BY <1>1, <2>1, OneMoves DEF Stays
  <2>3. \A u \in Threads : pc'[u] # Resume(u) \/ Stays(u)
    BY <1>1 DEF Resume
  <2>. QED
    BY <1>1, <2>2, <2>3, LosesLife, LivesOn
<1>4. ownerMap' = ownerMap
  BY <1>1, <1>3, OwnersStay
<1>5. phaseMap' = [phaseMap EXCEPT ![c] = "closed"] /\ phaseMap[c] = "open"
  <2>1. isClosed'[c] /\ \A d \in Conns : d # c => isClosed'[d] = isClosed[d]
    BY <1>1 DEF Typed, TypeOK
  <2>2. \A d \in Conns : d # c => Phase(d)' = Phase(d)
    BY <1>1, <1>3, <2>1, PhaseStays
  <2>3. Phase(c) = "open" /\ Phase(c)' = "closed"
    BY <1>1, <1>2, <1>3, <2>1 DEF Phase, Open, Accepted
  <2>. QED
    BY <1>1, <2>2, <2>3 DEF phaseMap
<1>6. Streaming' = Streaming
  <2>1. ASSUME NEW w \in Workers
        PROVE  Alive(w)' <=> Alive(w)
    <3>1. w \in Threads
      BY ThreadsOf
    <3>2. CASE w = t
      BY <1>1, <3>2 DEF Alive, EndPcs
    <3>3. CASE w # t
      BY <1>1, <3>1, <3>3 DEF Alive, Stays
    <3>. QED
      BY <3>2, <3>3
  <2>. QED
    BY <2>1, StreamsStay
<1>. QED
  BY <1>1, <1>4, <1>5, <1>6 DEF Registry!Close, phaseMap, ownerMap

(* A worker that leaves onDemandLoop ends its stream.                      *)
LEMMA WorkerEnds ==
  ASSUME Sound, Sound', Bound, Bound', Next, NEW w \in Workers, WorkerStep(w)
  PROVE  \/ UNCHANGED <<phaseMap, ownerMap, sessionId, Streaming>>
         \/ Registry!End(w) /\ w \in Streaming
<1>. USE DEF Sound, Bound
<1>1. /\ w \in Threads /\ pc[w] \in {"open", "check", "frame"} /\ w # Loop
      /\ UNCHANGED <<fdOf, connections, isClosed, sessionId, triggers>>
      /\ \E label \in {"check", "frame", "send", "done", "refused"} : Goto(w, label)
  BY ThreadsOf, ConstantsAssumption DEF WorkerStep, OpenVideo, CheckRunning, EndOfFile,
     SendFrame, workerUnchanged, netVars, Workers
<1>2. /\ pc'[w] \in {"check", "frame", "send", "done", "refused"}
      /\ \A u \in Threads : u # w => Stays(u)
  BY <1>1, GotoMoves
<1>3. \A d \in Conns : Live(d)' <=> Live(d)
  <2>1. ~HandleTriggerEvent
    <3>1. ASSUME triggers # <<>>, triggers \in Seq(TriggerEvents)
          PROVE  Tail(triggers) # triggers
      BY <3>1
    <3>. QED
      BY <1>1, <3>1 DEF HandleTriggerEvent, Typed, TypeOK
  <2>2. \A d \in Conns : ~Holds(w, d)
    BY <1>1 DEF Holds, SendPcs, ClosePcs
  <2>. QED
    BY <1>1, <1>2, <2>1, <2>2, LosesLife, LivesOn
<1>4. phaseMap' = phaseMap /\ ownerMap' = ownerMap
  BY <1>1, <1>3, PhasesStay, OwnersStay
<1>5. \A v \in Workers : v # w => (Alive(v)' <=> Alive(v))
  BY <1>2, ThreadsOf DEF Stays, Alive
<1>6. Alive(w)
  BY <1>1 DEF Alive, EndPcs
<1>7. CASE Alive(w)'
  <2>1. Streaming' = Streaming
    BY <1>5, <1>6, <1>7, StreamsStay
  <2>. QED
    BY <1>1, <1>4, <2>1
<1>8. CASE ~Alive(w)'
  <2>1. Streaming' = Streaming \ {w} /\ w \in Streaming
    BY <1>5, <1>6, <1>8 DEF Streaming
  <2>. QED
    BY <1>1, <1>4, <2>1 DEF Registry!End, phaseMap, ownerMap
<1>. QED
  BY <1>7, <1>8

(* The server starts as the registry does.                                 *)
LEMMA InitRegistry == Init => Registry!Init
<1>. SUFFICES ASSUME Init PROVE Registry!Init
  OBVIOUS
<1>1. \A c \in Conns : ~Accepted(c) /\ ~Live(c)
  BY DEF Init, Live, Accepted
<1>2. \A c \in Conns : Phase(c) = "new"
  BY <1>1 DEF Phase, Open
<1>3. \A fd \in Fds : Owner(fd) = NoConn
  BY <1>1, OwnerIsNone
<1>4. \A w \in Workers : pc[w] = "none"
  BY ConstantsAssumption, ThreadsOf DEF Init, Workers
<1>5. Streaming = {}
  BY <1>4 DEF Streaming, Alive
<1>. QED
  BY <1>2, <1>3, <1>5 DEF Registry!Init, Init

(* The steps that only the registry's Release can show.                    *)
LEMMA OtherSteps ==
  ASSUME Typed, Next, ~AddClient,
         \A c \in Conns : ~Accept(c),
         \A s \in Sessions : ~Describe(s),
         \A t \in Threads : ~CloseMark(t),
         \A w \in Workers : ~WorkerStep(w)
  PROVE  /\ UNCHANGED <<fdOf, isClosed, sessionId>>
         /\ \A w \in Workers : Alive(w)' <=> Alive(w)
<1>1. UNCHANGED <<fdOf, isClosed, sessionId>>
  BY NetStep, SessionSteps
<1>2. ASSUME NEW w \in Workers, ConnStep(w)
      PROVE  Alive(w)' <=> Alive(w)
  <2>1. w \in Threads /\ w # Loop /\ Alive(w)
    BY <1>2, ThreadsOf, ConstantsAssumption DEF ConnStep, SendCheck, SendAppend, HandleWrite,
       CloseTest, CloseMark, RemoveClient, JoinHandler, JoinSelf, Disconnected, Alive, EndPcs,
       Workers
  <2>2. Alive(w)'
    BY <1>2, <2>1 DEF ConnStep, SendCheck, SendAppend, HandleWrite,
       CloseTest, CloseMark, RemoveClient, JoinHandler, JoinSelf, Disconnected, Alive, EndPcs,
       Goto, Resume, Typed, TypeOK
  <2>. QED
    BY <2>1, <2>2
<1>3. ASSUME NEW w \in Workers, pc'[w] = pc[w]
      PROVE  Alive(w)' <=> Alive(w)
  BY <1>3 DEF Alive
<1>. QED
  BY <1>1, <1>2, <1>3, WorkerMoves

(* Every step of the server is one of the registry's, or shows nothing.    *)
LEMMA RegistryStep ==
  ASSUME TcpDescribesOne, Sound, Sound', Bound, Bound', [Next]_vars
  PROVE  [Registry!Next]_(Registry!vars)
<1>. DEFINE Shown == UNCHANGED <<phaseMap, ownerMap, sessionId, Streaming>>
<1>1. Shown => UNCHANGED Registry!vars
  BY DEF Registry!vars, phaseMap, ownerMap
<1>2. CASE UNCHANGED vars
  <2>1. \A c \in Conns : Live(c)' = Live(c)
    BY <1>2 DEF vars, netVars, Live, Holds, ConnOf
  <2>2. /\ UNCHANGED <<fdOf, isClosed, sessionId>>
        /\ \A w \in Workers : Alive(w)' <=> Alive(w)
    BY <1>2 DEF vars, netVars, Alive
  <2>3. Shown
    BY <2>1, <2>2, PhasesStay, OwnersStay, StreamsStay DEF Bound
  <2>. QED
    BY <1>1, <2>3
<1>3. CASE Next
  <2>1. ASSUME NEW c \in Conns, Accept(c)
        PROVE  Registry!Next
    BY <1>3, <2>1, AcceptConnects DEF Registry!Next
  <2>2. ASSUME NEW s \in Sessions, Describe(s)
        PROVE  Shown \/ Registry!Next
    BY <1>3, <2>2, DescribeDescribes DEF Registry!Next
  <2>3. ASSUME AddClient
        PROVE  Shown \/ Registry!Next
    BY <1>3, <2>3, AddBegins DEF Registry!Next
  <2>4. ASSUME NEW t \in Threads, CloseMark(t)
        PROVE  Registry!Next
    BY <1>3, <2>4, MarkCloses DEF Registry!Next
  <2>5. ASSUME NEW w \in Workers, WorkerStep(w)
        PROVE  Shown \/ Registry!Next
    BY <1>3, <2>5, WorkerEnds DEF Registry!Next
  <2>6. ASSUME ~AddClient, \A c \in Conns : ~Accept(c), \A s \in Sessions : ~Describe(s),
               \A t \in Threads : ~CloseMark(t), \A w \in Workers : ~WorkerStep(w)
        PROVE  Shown \/ Registry!Next
    <3>1. /\ UNCHANGED <<fdOf, isClosed, sessionId>>
          /\ \A w \in Workers : Alive(w)' <=> Alive(w)
      BY <1>3, <2>6, OtherSteps DEF Sound
    <3>. QED
      BY <1>3, <2>6, <3>1, ReleasesOrStays DEF Registry!Next
  <2>. HIDE DEF Shown
  <2>. QED
    BY <1>1, <2>1, <2>2, <2>3, <2>4, <2>5, <2>6
<1>. QED
  BY <1>2, <1>3

(* Theorem: whatever the number of connections, sessions and descriptors,  *)
(* the server with its threads, locks and queued callbacks is the simple   *)
(* registry of StreamRegistry, if Stop runs at most where clients stream   *)
(* over UDP and a client that may stream over TCP describes one session: a *)
(* stream begins for an open connection only, and a connection and its     *)
(* descriptor are released only when the stream it described last is over. *)
THEOREM RefinesRegistry ==
  ASSUME StopsOverUdp, TcpDescribesOne
  PROVE  Spec => RegistrySpec
<1>1. Sound /\ Sound' /\ Bound /\ Bound' /\ [Next]_vars => [Registry!Next]_(Registry!vars)
  BY RegistryStep
<1>2. Spec => []Sound
  BY AlwaysTyped, AlwaysOrderly, HandlerSafe, PTL DEF Sound
<1>3. Spec => []Bound
  BY AlwaysBound
<1>. QED
  BY <1>1, <1>2, <1>3, InitRegistry, PTL DEF Spec, RegistrySpec, Registry!Spec

-----------------------------------------------------------------------------
(* What DescribedHasHandler needs to be inductive, as long as a client     *)
(* describes one session: an entry of clients_ is that of a living         *)
(* connection that has described the session, with its handler; a closed   *)
(* connection keeps its entry until the thread that closes it erases it.   *)
DescribesOne == \A c \in Conns : \A s, other \in Targets[c] : s = other

Served(s, fd, d) ==
  /\ fdOf[d] = fd /\ Live(d)
  /\ sessionId[d] = s /\ <<s, d>> \in handlers
  /\ (isClosed[d] => \E t \in Threads : ConnOf(t) = d /\ pc[t] \in Removing)

EntriesAreServed ==
  \A s \in Sessions, fd \in Fds, d \in Conns :
    clients[s][fd] = d => Served(s, fd, d)

(* A connection is marked closed for good.                                 *)
LEMMA ClosedStays ==
  ASSUME Typed, Next, NEW c \in Conns, isClosed[c]
  PROVE  isClosed'[c]
BY SessionSteps, MarkSets DEF Typed, TypeOK

(* A connection that is open, or that a thread takes out of its session,   *)
(* lives.                                                                  *)
LEMMA LivesNext ==
  ASSUME Orderly', NEW c \in Conns, fdOf'[c] # NoFd,
         isClosed'[c] => \E t \in Threads : ConnOf(t)' = c /\ pc'[t] \in Removing
  PROVE  Live(c)'
<1>1. CASE ~isClosed'[c]
  BY <1>1, LiveWhenNext DEF Orderly, OpenStaysRegistered, Open, Accepted
<1>2. ASSUME NEW t \in Threads, ConnOf(t)' = c, pc'[t] \in Removing
      PROVE  Live(c)'
  <2>1. Holds(t, c)'
    BY <1>2 DEF Holds, Removing, ClosePcs
  <2>. QED
    BY <2>1, LiveWhenNext
<1>. QED
  BY <1>1, <1>2

(* An entry that stays keeps what it stands for.                           *)
LEMMA EntryKept ==
  ASSUME Sound, Sound', Bound, DescribesOne, Next, EntriesAreServed,
         NEW s \in Sessions, NEW fd \in Fds, NEW d \in Conns,
         clients[s][fd] = d, clients'[s][fd] = d
  PROVE  /\ fdOf'[d] = fd /\ sessionId'[d] = s /\ <<s, d>> \in handlers' /\ Live(d)'
         /\ isClosed'[d] => \E t \in Threads : ConnOf(t)' = d /\ pc'[t] \in Removing
<1>. USE DEF Sound, Bound
<1>1. /\ fdOf[d] = fd /\ sessionId[d] = s /\ <<s, d>> \in handlers /\ Live(d)
      /\ isClosed[d] => \E t \in Threads : ConnOf(t) = d /\ pc[t] \in Removing
  BY DEF EntriesAreServed, Served
<1>2. fdOf'[d] = fd /\ fdOf'[d] # NoFd
  BY <1>1, AcceptedStays, ConstantsAssumption DEF Typed
<1>3. sessionId'[d] = s
  <2>1. s \in Targets[d]
    BY <1>1, ConstantsAssumption DEF WorksOnDescribed, ConnsAsTold
  <2>2. ASSUME NEW e \in Sessions, Describe(e)
        PROVE  sessionId'[d] = s
    BY <1>1, <2>1, <2>2, DescribeSets DEF DescribesOne, Typed, TypeOK
  <2>. QED
    BY <1>1, <2>2, SessionSteps
<1>4. \A t \in Threads : ~(clients' = EraseEntry(t) /\ target[t] = s /\ fdOf[ConnOf(t)] = fd)
  BY EraseSets, ConstantsAssumption
<1>5. <<s, d>> \in handlers'
  <2>1. ASSUME NEW t \in Threads, JoinHandler(t)
        PROVE  Victim(t) # <<s, d>>
    <3>. SUFFICES ASSUME Victim(t) = <<s, d>> PROVE FALSE
      OBVIOUS
    <3>1. target[t] = s /\ clients[s][fdOf[ConnOf(t)]] = d /\ clients' = EraseEntry(t)
      BY <2>1 DEF JoinHandler, Victim, Registered
    <3>2. fdOf[ConnOf(t)] \in Fds
      BY <2>1, WorkingConn DEF JoinHandler
    <3>3. fdOf[ConnOf(t)] = fd
      BY <1>1, <3>1, <3>2 DEF EntriesAreServed, Served
    <3>. QED
      BY <1>4, <3>1, <3>3
  <2>. QED
    BY <1>1, <2>1, HandlerSteps DEF AddClient, JoinHandler
<1>6. ASSUME isClosed'[d]
      PROVE  \E t \in Threads : ConnOf(t)' = d /\ pc'[t] \in Removing
  <2>1. CASE ~isClosed[d]
    <3>. PICK t \in Threads : CloseMark(t)
      BY <1>6, <2>1, SessionSteps
    <3>1. ConnOf(t) = d
      BY <1>6, <2>1, MarkSets DEF Typed, TypeOK
    <3>. QED
      BY <1>1, <3>1, MarkSets, ConstantsAssumption DEF Removing
  <2>2. CASE isClosed[d]
    <3>. PICK t \in Threads : ConnOf(t) = d /\ pc[t] \in Removing
      BY <1>1, <2>2
    <3>1. target[t] = s /\ fdOf[ConnOf(t)] = fd
      BY <1>1 DEF WorksOnDescribed, RemovesDescribed
    <3>2. ~JoinHandler(t)
      BY <1>4, <3>1 DEF JoinHandler
    <3>3. CASE RemoveClient(t)
      <4>1. Goto(t, "join")
        BY <1>4, <3>1, <3>3 DEF RemoveClient
      <4>. QED
        BY <4>1, GotoMoves DEF Removing
    <3>4. CASE Stays(t)
      BY <3>4 DEF Stays
    <3>. QED
      BY <3>2, <3>3, <3>4, RemovingMoves
  <2>. QED
    BY <2>1, <2>2
<1>. QED
  BY <1>2, <1>3, <1>5, <1>6, LivesNext

(* Every step keeps EntriesAreServed.                                      *)
LEMMA EntriesStep ==
  ASSUME Sound, Sound', Bound, TcpDescribesOne, DescribesOne, Next, EntriesAreServed
  PROVE  EntriesAreServed'
<1>. USE DEF Sound, Bound
<1>. SUFFICES ASSUME NEW s \in Sessions, NEW fd \in Fds, NEW d \in Conns, clients'[s][fd] = d
              PROVE  /\ fdOf'[d] = fd /\ sessionId'[d] = s /\ <<s, d>> \in handlers' /\ Live(d)'
                     /\ isClosed'[d] => \E t \in Threads : ConnOf(t)' = d /\ pc'[t] \in Removing
  BY DEF EntriesAreServed, Served
<1>1. CASE clients[s][fd] = d
  BY <1>1, EntryKept
<1>2. CASE clients[s][fd] # d
  <2>1. \A t \in Threads : clients' = EraseEntry(t) => FALSE
    BY <1>2, EraseSets, ConstantsAssumption
  <2>2. AddClient
    BY <1>2, <2>1, SessionSteps DEF RemoveClient, JoinHandler
  <2>3. Unknown(target[Loop], fdOf[serving])
    BY <1>2, <2>2 DEF AddClient
  <2>4. s = target[Loop] /\ fd = fdOf[serving] /\ d = serving /\ <<s, d>> \in handlers'
    BY <1>2, <2>2, <2>3, AddSets, ConstantsAssumption
  <2>5. /\ pc[Loop] = "addClient" /\ UNCHANGED <<fdOf, isClosed, sessionId>>
        /\ sessionId[d] = s
    BY <2>2, <2>4 DEF AddClient, netVars, WorksOnDescribed, AddsDescribed
  <2>6. ~isClosed[d]
    BY <2>2, <2>3, <2>4, AddIsOpen
  <2>. QED
    BY <2>4, <2>5, <2>6, LivesNext, ConstantsAssumption
<1>. QED
  BY <1>1, <1>2

(* The connection of an entry has its descriptor, and lives.               *)
LEMMA EntryLives ==
  ASSUME NEW s \in Sessions, NEW fd \in Fds, NEW d \in Conns,
         EntriesAreServed, clients[s][fd] = d
  PROVE  fdOf[d] = fd /\ Live(d)
<1>1. Served(s, fd, d)
  BY Zenon DEF EntriesAreServed
<1>. QED
  BY <1>1, Zenon DEF Served

(* Every step keeps DescribedHasHandler: AddClient finds the number taken  *)
(* only by the connection itself, and only a thread that closes the        *)
(* connection erases its entry.                                            *)
LEMMA DescribedStep ==
  ASSUME Sound, Sound', Bound, Bound', EntriesAreServed, EntriesAreServed',
         DescribedHasHandler, Next
  PROVE  DescribedHasHandler'
<1>. USE DEF Sound, Bound
<1>. SUFFICES ASSUME NEW c \in Conns, NEW s \in Sessions,
                     Open(c)', sessionId'[c] = s, ~Adding(c)'
              PROVE  clients'[s][fdOf'[c]] = c
  BY ConstantsAssumption DEF DescribedHasHandler, EntriesAreServed, Served, Open, Accepted, Typed, TypeOK
<1>1. Accepted(c)
  <2>. SUFFICES ASSUME ~Accepted(c) PROVE FALSE
    OBVIOUS
  <2>1. sessionId[c] = NoSession
    BY DEF WorksOnDescribed, ConnsAsTold
  <2>2. sessionId' = sessionId
    BY <2>1, SessionSteps, DescribeSets, ConstantsAssumption DEF Typed, TypeOK
  <2>. QED
    BY <2>1, <2>2, ConstantsAssumption
<1>2. /\ fdOf'[c] = fdOf[c] /\ fdOf[c] \in Fds
      /\ Open(c) /\ Live(c)
  BY <1>1, AcceptedStays, ClosedStays, LiveWhen
     DEF Accepted, Open, Typed, TypeOK, Orderly, OpenStaysRegistered
<1>3. sessionId[c] = s
  <2>1. ASSUME NEW e \in Sessions, Describe(e)
        PROVE  serving # c
    BY <2>1, DescribeSets DEF Adding
  <2>. QED
    BY <2>1, SessionSteps, DescribeSets DEF Typed, TypeOK
<1>4. CASE AddClient /\ Unknown(target[Loop], fdOf[serving])
  <2>1. s = target[Loop] /\ fdOf[c] = fdOf[serving] => serving = c
    BY <1>2, <1>4, AddSets, WorkingLives, ThreadsOf DEF OneLives, AddClient, ConnOf
  <2>2. CASE serving = c
    BY <1>2, <1>3, <1>4, <2>2, AddSets DEF WorksOnDescribed, AddsDescribed, AddClient
  <2>3. CASE serving # c
    <3>1. clients[s][fdOf[c]] = c
      BY <1>2, <1>3, <2>3 DEF DescribedHasHandler, Adding
    <3>. QED
      BY <1>2, <1>4, <2>1, <2>3, <3>1, AddSets, ConstantsAssumption
  <2>. QED
    BY <2>2, <2>3
<1>5. CASE ~(AddClient /\ Unknown(target[Loop], fdOf[serving]))
  <2>1. clients[s][fdOf[c]] = c
    <3>1. CASE ~Adding(c)
      BY <1>2, <1>3, <3>1 DEF DescribedHasHandler
    <3>2. CASE Adding(c)
      <4>1. AddClient
        BY <1>1, <3>2, LoopMoves, ThreadsOf DEF Adding, Stays, ConnOf, HandleEvent,
           HandleTriggerEvent, LoopStep, HandleRead, HandleError, Request, OtherRequest,
           Setup, Play, Teardown, GetParameter, Describe, Requesting, ConnStep, SendCheck,
           SendAppend, HandleWrite, CloseTest, CloseMark, RemoveClient, JoinHandler, JoinSelf,
           Disconnected
      <4>2. target[Loop] = s /\ serving = c
        BY <1>3, <3>2 DEF Adding, WorksOnDescribed, AddsDescribed
      <4>3. clients[s][fdOf[c]] \in Conns
        BY <1>2, <1>5, <4>1, <4>2 DEF Unknown, Typed, TypeOK
      <4>. PICK d \in Conns : clients[s][fdOf[c]] = d
        BY <4>3
      <4>4. fdOf[d] = fdOf[c] /\ Live(d)
        BY <1>2, EntryLives, Zenon
      <4>. QED
        BY <1>2, <4>4 DEF OneLives
    <3>. QED
      BY <3>1, <3>2
  <2>2. ASSUME NEW t \in Threads, pc[t] \in Removing, clients' = EraseEntry(t)
        PROVE  clients'[s][fdOf[c]] = c
    <3>1. ConnOf(t) \in Conns /\ Live(ConnOf(t)) /\ isClosed[ConnOf(t)]
      BY <2>2, WorkingLives DEF Removing, ClosePcs, Orderly, DepartedRegistered, Departed
    <3>2. fdOf[ConnOf(t)] # fdOf[c]
      BY <1>2, <3>1 DEF OneLives, Open
    <3>. QED
      BY <1>2, <2>1, <2>2, <3>2, EraseSets
  <2>3. CASE clients' = clients
    BY <1>2, <2>1, <2>3
  <2>. QED
    BY <1>2, <1>5, <2>2, <2>3, SessionSteps DEF AddClient, RemoveClient, JoinHandler, Removing
<1>. QED
  BY <1>4, <1>5

(* The server starts without entries.                                      *)
LEMMA InitEntries == Init => EntriesAreServed /\ DescribedHasHandler
BY ConstantsAssumption DEF Init, EntriesAreServed, Served, DescribedHasHandler, Open, Accepted

(* Theorem: a client that described a session has an entry and a handler   *)
(* of its own there, on whatever descriptor and however often the numbers  *)
(* are used again, if Stop runs at most where clients stream over UDP and  *)
(* a client describes one session.                                         *)
THEOREM DescribedSafe ==
  ASSUME StopsOverUdp, DescribesOne
  PROVE  Spec => []DescribedHasHandler
<1>1. TcpDescribesOne
  BY DEF TcpDescribesOne, DescribesOne
<1>2. Spec => []Sound /\ []Bound
  BY <1>1, AlwaysTyped, AlwaysOrderly, HandlerSafe, AlwaysBound, PTL DEF Sound
<1>3. /\ Sound /\ Sound' /\ Bound /\ Bound' /\ EntriesAreServed /\ DescribedHasHandler
      /\ [Next]_vars
      => EntriesAreServed' /\ DescribedHasHandler'
  <2>1. CASE UNCHANGED vars
    BY <2>1 DEF vars, netVars, sessionVars, EntriesAreServed, Served, DescribedHasHandler, Live, Holds,
       ConnOf, Open, Accepted, Adding
  <2>. QED
    BY <1>1, <2>1, EntriesStep, DescribedStep
<1>. QED
  BY <1>2, <1>3, InitEntries, PTL DEF Spec
-----------------------------------------------------------------------------
(* No Close is forgotten.  Nothing here needs the mutex: two threads that  *)
(* are inside the Close of one connection both carry it out.  It needs     *)
(* that a thread that is in a Close is not started anew.                   *)
KnownAreAccepted == \A c \in Conns : c \in swept \/ isClosed[c] => Accepted(c)

(* Stop alone sweeps, and only registered connections.                     *)
LEMMA SweepSteps ==
  ASSUME Next, NEW c \in Conns, c \notin swept, (c \in swept)'
  PROVE  StopDisconnect(c)
<1>. USE DEF netVars, sessionVars, stopVars, requestUnchanged, workerUnchanged, stopUnchanged
<1>1. CASE \/ \E d \in Conns : Accept(d) \/ HandleEvent(d)
           \/ HandleTriggerEvent \/ HandleRead \/ HandleError \/ Stop \/ StopStep \/ AddClient
  BY <1>1 DEF Accept, HandleEvent, HandleTriggerEvent, HandleRead, HandleError, Stop, StopStep,
     AddClient
<1>2. CASE Request
  BY <1>2 DEF Request, OtherRequest, Setup, Play, Teardown, GetParameter, Describe
<1>3. CASE \E t \in Threads : ConnStep(t)
  BY <1>3 DEF ConnStep, SendCheck, SendAppend, HandleWrite, CloseTest, CloseMark,
     RemoveClient, JoinHandler, JoinSelf, Disconnected
<1>4. CASE \E w \in Workers : WorkerStep(w)
  BY <1>4 DEF WorkerStep, OpenVideo, CheckRunning, EndOfFile, SendFrame
<1>5. CASE \E d \in Conns : StopDisconnect(d)
  BY <1>5 DEF StopDisconnect
<1>. QED
  BY <1>1, <1>2, <1>3, <1>4, <1>5 DEF Next, LoopStep

(* A thread that is inside a Close goes on with it.                        *)
LEMMA CloseGoesOn ==
  ASSUME Typed, AliveHasEntry, Next, NEW t \in Threads, pc[t] \in ClosePcs
  PROVE  \/ Stays(t)
         \/ CloseTest(t) \/ CloseMark(t) \/ RemoveClient(t) \/ JoinHandler(t) \/ Disconnected(t)
<1>1. CASE t = Loop
  <2>1. ~LoopStep
    BY <1>1 DEF LoopStep, HandleRead, HandleError, Request, Requesting, OtherRequest, Setup, Play,
       Teardown, GetParameter, Describe, AddClient, ClosePcs
  <2>2. ~HandleTriggerEvent /\ \A c \in Conns : ~HandleEvent(c)
    BY <1>1 DEF HandleTriggerEvent, HandleEvent, ClosePcs
  <2>3. ConnStep(Loop) =>
          \/ CloseTest(t) \/ CloseMark(t) \/ RemoveClient(t) \/ JoinHandler(t) \/ Disconnected(t)
          \/ JoinSelf(t)
    BY <1>1 DEF ConnStep, SendCheck, SendAppend, HandleWrite, ClosePcs
  <2>4. JoinSelf(t) => Stays(t)
    BY DEF JoinSelf, Stays, ConnOf
  <2>. QED
    BY <1>1, <2>1, <2>2, <2>3, <2>4, LoopMoves
<1>2. CASE t \in Workers
  <2>1. t # Loop /\ ConnOf(t)' = ConnOf(t)
    BY <1>2, ConstantsAssumption DEF Workers, ConnOf
  <2>2. ~WorkerStep(t)
    BY DEF WorkerStep, OpenVideo, CheckRunning, EndOfFile, SendFrame, ClosePcs
  <2>3. ~(AddClient /\ t = <<target[Loop], serving>> /\ pc'[t] = "open")
    <3>. SUFFICES ASSUME AddClient, t = <<target[Loop], serving>>, pc'[t] = "open"
                  PROVE  FALSE
      OBVIOUS
    <3>1. pc[t] # "open" /\ Alive(t)
      BY DEF ClosePcs, Alive, EndPcs
    <3>2. Unknown(target[Loop], fdOf[serving])
      BY <2>1, <3>1 DEF AddClient, Typed, TypeOK
    <3>. QED
      BY <3>1, <3>2, UnknownIsIdle
  <2>4. ConnStep(t) =>
          \/ CloseTest(t) \/ CloseMark(t) \/ RemoveClient(t) \/ JoinHandler(t) \/ Disconnected(t)
          \/ JoinSelf(t)
    BY DEF ConnStep, SendCheck, SendAppend, HandleWrite, ClosePcs
  <2>5. JoinSelf(t) => Stays(t)
    BY DEF JoinSelf, Stays, ConnOf
  <2>. QED
    BY <1>2, <2>1, <2>2, <2>3, <2>4, <2>5, WorkerMoves DEF Stays
<1>. QED
  BY <1>1, <1>2 DEF Threads

(* Every step keeps KnownAreAccepted: Stop sweeps what is registered, and  *)
(* a thread closes a connection that it works for.                         *)
LEMMA KnownStep ==
  ASSUME Typed, Next, KnownAreAccepted
  PROVE  KnownAreAccepted'
<1>. USE DEF KnownAreAccepted, Accepted
<1>. SUFFICES ASSUME NEW c \in Conns, (c \in swept)' \/ isClosed'[c]
              PROVE  fdOf[c] # NoFd
  BY AcceptedStays DEF Typed
<1>1. CASE c \in swept \/ isClosed[c]
  BY <1>1
<1>2. CASE StopDisconnect(c)
  BY <1>2, ConstantsAssumption DEF StopDisconnect, Unswept, Typed, RegisteredIsAccepted
<1>3. CASE c \notin swept /\ (c \in swept)'
  BY <1>2, <1>3, SweepSteps
<1>4. CASE ~isClosed[c] /\ isClosed'[c]
  BY <1>4, SessionSteps, MarkSets DEF Typed, TypeOK
<1>. QED
  BY <1>1, <1>3, <1>4

(* A swept connection that is open has its Close before it.                *)
LEMMA SweptStep ==
  ASSUME Typed, AliveHasEntry, Next, KnownAreAccepted, NoCloseForgotten,
         NEW c \in Conns, (c \in swept)', Open(c)'
  PROVE  Queued(CloseEvent(c))' \/ Inside(c, {"close", "closing"})'
<1>1. CASE c \notin swept
  <2>1. triggers' = Append(triggers, CloseEvent(c)) /\ triggers \in Seq(TriggerEvents)
    BY <1>1, SweepSteps DEF StopDisconnect, StopEvent, Typed, TypeOK
  <2>2. CloseEvent(c) \in TriggerEvents
    BY NewEvents
  <2>3. /\ Len(triggers) + 1 \in 1..Len(triggers')
        /\ triggers'[Len(triggers) + 1] = CloseEvent(c)
    BY <2>1, <2>2
  <2>. QED
    BY <2>3 DEF Queued
<1>2. CASE c \in swept
  <2>1. Open(c)
    BY <1>2, SessionSteps, MarkSets DEF KnownAreAccepted, Open, Typed, TypeOK
  <2>2. CASE Queued(CloseEvent(c)) /\ ~Queued(CloseEvent(c))'
    <3>1. HandleTriggerEvent /\ triggers[1] = CloseEvent(c)
      BY <2>2, QueuedUntilTaken
    <3>2. serving' = c /\ pc'[Loop] = "close"
      BY <3>1, TriggerTaken, EventsDiffer, ThreadsOf DEF Typed, TypeOK
    <3>. QED
      BY <3>2, ThreadsOf DEF Inside, ConnOf
  <2>3. ASSUME NEW t \in Threads, ConnOf(t) = c, pc[t] \in {"close", "closing"}
        PROVE  Inside(c, {"close", "closing"})'
    <3>1. \/ Stays(t) \/ CloseTest(t) \/ CloseMark(t)
      BY <2>3, CloseGoesOn DEF ClosePcs, RemoveClient, JoinHandler, Disconnected
    <3>2. CASE CloseTest(t)
      <4>1. Goto(t, "closing")
        BY <2>1, <2>3, <3>2 DEF CloseTest, CloseNeeded, Open
      <4>. QED
        BY <2>3, <4>1, GotoMoves DEF Inside
    <3>3. ~CloseMark(t)
      BY <2>3, MarkSets DEF Open, Typed, TypeOK
    <3>. QED
      BY <2>3, <3>1, <3>2, <3>3 DEF Stays, Inside
  <2>. QED
    BY <1>2, <2>1, <2>2, <2>3 DEF NoCloseForgotten, Inside
<1>. QED
  BY <1>1, <1>2

(* A closed connection that is registered has its removal before it.       *)
LEMMA ClosedStep ==
  ASSUME Typed, AliveHasEntry, Next, KnownAreAccepted, NoCloseForgotten,
         NEW c \in Conns, isClosed'[c], connections'[fdOf'[c]] = c
  PROVE  Queued(RemoveEvent(fdOf[c]))' \/ Inside(c, Departed)'
<1>1. CASE ~isClosed[c]
  <2>1. PICK t \in Threads : CloseMark(t)
    BY <1>1, SessionSteps DEF Typed, TypeOK
  <2>2. ConnOf(t) = c /\ ConnOf(t)' = c /\ pc'[t] \in Departed
    BY <1>1, <2>1, MarkSets DEF Typed, TypeOK, Departed
  <2>. QED
    BY <2>2 DEF Inside
<1>2. CASE isClosed[c]
  <2>1. PICK fd \in Fds : fdOf[c] = fd /\ fdOf'[c] = fd
    BY <1>2, AcceptedStays DEF KnownAreAccepted, Accepted, Typed, TypeOK
  <2>2. connections[fd] = c
    <3>1. CASE \E d \in Conns : Accept(d)
      BY <2>1, <3>1, ConstantsAssumption DEF Accept, Typed, TypeOK
    <3>2. CASE HandleTriggerEvent
      BY <2>1, <3>2, TriggerTaken, ConstantsAssumption DEF Typed, TypeOK
    <3>3. CASE connections' = connections
      BY <2>1, <3>3
    <3>. QED
      BY <3>1, <3>2, <3>3, NetStep
  <2>3. CASE Queued(RemoveEvent(fd)) /\ ~Queued(RemoveEvent(fd))'
    <3>1. HandleTriggerEvent /\ triggers[1] = RemoveEvent(fd)
      BY <2>3, QueuedUntilTaken
    <3>2. connections'[fd] = NoConn
      BY <2>1, <3>1, TriggerTaken, EventsDiffer DEF Typed, TypeOK
    <3>. QED
      BY <2>1, <3>2, ConstantsAssumption
  <2>4. ASSUME NEW t \in Threads, ConnOf(t) = c, pc[t] \in Departed
        PROVE  Queued(RemoveEvent(fd))' \/ Inside(c, Departed)'
    <3>1. Stays(t) \/ RemoveClient(t) \/ JoinHandler(t) \/ Disconnected(t)
      BY <2>4, CloseGoesOn DEF ClosePcs, CloseTest, CloseMark, Departed
    <3>2. CASE RemoveClient(t) \/ JoinHandler(t)
      <4>1. \E label \in Departed : Goto(t, label)
        BY <3>2 DEF RemoveClient, JoinHandler, Departed
      <4>2. ConnOf(t)' = c /\ pc'[t] \in Departed
        BY <2>4, <4>1, GotoMoves DEF Departed
      <4>. QED
        BY <4>2 DEF Inside
    <3>3. CASE Disconnected(t)
      <4>1. triggers' = Append(triggers, RemoveEvent(fd)) /\ triggers \in Seq(TriggerEvents)
        BY <2>1, <2>4, <3>3 DEF Disconnected, QueueRemoval, Typed, TypeOK
      <4>2. RemoveEvent(fd) \in TriggerEvents
        BY <2>1, NewEvents
      <4>3. /\ Len(triggers) + 1 \in 1..Len(triggers')
            /\ triggers'[Len(triggers) + 1] = RemoveEvent(fd)
        BY <4>1, <4>2
      <4>. QED
        BY <2>1, <4>3 DEF Queued
    <3>. QED
      BY <2>4, <3>1, <3>2, <3>3 DEF Stays, Inside
  <2>. QED
    BY <1>2, <2>1, <2>2, <2>3, <2>4 DEF NoCloseForgotten, Queued, Inside, Departed
<1>. QED
  BY <1>1, <1>2

(* While a connection lives, its streams have their entries, also when a   *)
(* client describes several sessions over TCP.                             *)
LEMMA AlwaysHasEntry == ASSUME StopsOverUdp PROVE Spec => []AliveHasEntry
<1>1. Sound /\ Sound' /\ OneLives /\ AliveHasEntry /\ [Next]_vars => OneLives' /\ AliveHasEntry'
  BY OneLivesStep, AliveHasEntryStep, LivesStutter DEF Sound
<1>2. Spec => []Sound
  BY AlwaysTyped, AlwaysOrderly, HandlerSafe, PTL DEF Sound
<1>3. Init => OneLives /\ AliveHasEntry
  BY InitBound DEF Bound
<1>. QED
  BY <1>1, <1>2, <1>3, PTL DEF Spec

(* Theorem: no Close is forgotten, unless TcpServer::Stop runs while       *)
(* clients may stream over TCP: who waits for a connection that Stop has   *)
(* swept, or for a closed one to leave the registry, waits for a queued    *)
(* event or for a thread that is inside its Close.                         *)
THEOREM ClosesSafe == ASSUME StopsOverUdp PROVE Spec => []NoCloseForgotten
<1>1. Init => KnownAreAccepted /\ NoCloseForgotten
  BY DEF Init, KnownAreAccepted, NoCloseForgotten
<1>2. Typed /\ AliveHasEntry /\ KnownAreAccepted /\ NoCloseForgotten /\ [Next]_vars
      => KnownAreAccepted' /\ NoCloseForgotten'
  <2>. SUFFICES ASSUME Typed, AliveHasEntry, KnownAreAccepted, NoCloseForgotten, [Next]_vars
                PROVE  KnownAreAccepted' /\ NoCloseForgotten'
    OBVIOUS
  <2>1. CASE UNCHANGED vars
    BY <2>1 DEF vars, netVars, stopVars, KnownAreAccepted, NoCloseForgotten, Accepted, Open,
       Queued, Inside, ConnOf
  <2>2. CASE Next
    <3>1. \A c \in Conns : isClosed'[c] => fdOf'[c] = fdOf[c]
      BY <2>2, SessionSteps, MarkSets, AcceptedStays DEF KnownAreAccepted, Accepted, Typed, TypeOK
    <3>2. ASSUME NEW c \in Conns, isClosed'[c], connections'[fdOf'[c]] = c
          PROVE  Queued(RemoveEvent(fdOf[c]))' \/ Inside(c, Departed)'
      BY <2>2, <3>2, ClosedStep
    <3>3. ASSUME NEW c \in Conns, (c \in swept)', Open(c)'
          PROVE  Queued(CloseEvent(c))' \/ Inside(c, {"close", "closing"})'
      BY <2>2, <3>3, SweptStep
    <3>. QED
      BY <2>2, <3>1, <3>2, <3>3, KnownStep DEF NoCloseForgotten, Queued, Inside, Departed
  <2>. QED
    BY <2>1, <2>2
<1>. QED
  BY <1>1, <1>2, AlwaysTyped, AlwaysHasEntry, PTL DEF Spec
=============================================================================
