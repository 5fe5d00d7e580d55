---------------------------- MODULE TaskScheduler ---------------------------
(***************************************************************************)
(* The event loop's scheduler: the ring buffer of trigger events, the pipe *)
(* that wakes the loop out of its poll, start and stop.  Any thread posts  *)
(* events with AddTriggerEvent; the loop's own callbacks do so as well.    *)
(* Only the loop pops, without the mutex.  EventLoop::Quit stops the       *)
(* scheduler and joins its thread with EventLoop::mutex_ held, which the   *)
(* handler of an accept takes, too.                                        *)
(***************************************************************************)
EXTENDS Naturals, Sequences

CONSTANTS
  Producers,   \* the other threads that post events
  Loop,        \* the loop's thread
  Capacity,    \* kMaxTriggetEvents
  MaxPosts,    \* bound: how many events a thread posts
  NoThread, NoEvent

Threads == Producers \cup {Loop}
Events == Threads \X (1..MaxPosts)
Positions == 0..(Capacity - 1)

ASSUME SchedulerAssumption ==
  /\ Capacity \in Nat \ {0} /\ MaxPosts \in Nat
  /\ Loop \notin Producers /\ NoThread \notin Threads /\ NoEvent \notin Events

VARIABLES
  buffer, putPos, getPos, numDatas,  \* RingBuffer
  mutex,       \* owner of TaskScheduler::mutex_
  post,        \* where each thread is in AddTriggerEvent
  posted,      \* how many events each thread has begun to post
  pipe,        \* whether the wake-up pipe has bytes to read
  isShutdown,  \* is_shutdown_
  loop,        \* where the loop is
  callback,    \* the event the loop has popped last
  main         \* where the thread that quits the EventLoop is

ringVars == <<buffer, putPos, getPos, numDatas>>
postVars == <<mutex, post, posted>>
vars == <<ringVars, postVars, pipe, isShutdown, loop, callback, main>>

TypeOK ==
  /\ buffer \in [Positions -> Events \cup {NoEvent}]
  /\ putPos \in Positions /\ getPos \in Positions
  /\ numDatas \in 0..Capacity
  /\ mutex \in Threads \cup {NoThread}
  /\ post \in [Threads -> {"idle", "lock", "push", "count", "write"}]
  /\ posted \in [Threads -> 0..MaxPosts]
  /\ pipe \in BOOLEAN /\ isShutdown \in BOOLEAN
  /\ loop \in {"begin", "head", "pop", "popped", "callback", "size", "wait", "connect",
               "handle", "end"}
  /\ callback \in Events \cup {NoEvent}
  /\ main \in {"run", "write", "join", "joined"}

Init ==
  /\ buffer = [i \in Positions |-> NoEvent]
  /\ putPos = 0 /\ getPos = 0 /\ numDatas = 0
  /\ mutex = NoThread
  /\ post = [t \in Threads |-> "idle"]
  /\ posted = [t \in Threads |-> 0]
  /\ pipe = FALSE /\ isShutdown = FALSE
  /\ loop = "begin" /\ callback = NoEvent /\ main = "run"

(* RingBuffer::Add.                                                        *)
Add(pos) == IF pos + 1 = Capacity THEN 0 ELSE pos + 1

-----------------------------------------------------------------------------
(* AddTriggerEvent.  The loop posts only from a callback or from the       *)
(* handler of a channel.                                                   *)
MayPost(t) == t # Loop \/ loop \in {"callback", "handle"}

(* The size is tested without the mutex; a full queue refuses the event.   *)
PostTest(t) ==
  /\ post[t] = "idle" /\ MayPost(t) /\ posted[t] < MaxPosts
  /\ posted' = [posted EXCEPT ![t] = @ + 1]
  /\ post' = [post EXCEPT ![t] = IF numDatas < Capacity THEN "lock" ELSE "idle"]
  /\ UNCHANGED <<ringVars, mutex, pipe, isShutdown, loop, callback, main>>

Barging == TRUE                         \* a slip
Unlocked == mutex = NoThread
PostLock(t) ==
  /\ post[t] = "lock" /\ Unlocked
  /\ mutex' = t
  /\ post' = [post EXCEPT ![t] = "push"]
  /\ UNCHANGED <<ringVars, posted, pipe, isShutdown, loop, callback, main>>

(* PushData drops the event when the ring has become full meanwhile.       *)
Room == numDatas < Capacity
PushStore(t) ==
  /\ post[t] = "push"
  /\ IF Room
     THEN /\ buffer' = [buffer EXCEPT ![putPos] = <<t, posted[t]>>]
          /\ putPos' = Add(putPos)
          /\ post' = [post EXCEPT ![t] = "count"]
     ELSE /\ post' = [post EXCEPT ![t] = "write"]
          /\ UNCHANGED <<buffer, putPos>>
  /\ UNCHANGED <<getPos, numDatas, mutex, posted, pipe, isShutdown, loop, callback, main>>

PushCount(t) ==
  /\ post[t] = "count"
  /\ numDatas' = numDatas + 1
  /\ post' = [post EXCEPT ![t] = "write"]
  /\ UNCHANGED <<buffer, putPos, getPos, mutex, posted, pipe, isShutdown, loop, callback, main>>

Silent == pipe                          \* a slip
Signalled == TRUE
PostWrite(t) ==
  /\ post[t] = "write"
  /\ pipe' = Signalled
  /\ mutex' = NoThread
  /\ post' = [post EXCEPT ![t] = "idle"]
  /\ UNCHANGED <<ringVars, posted, isShutdown, loop, callback, main>>

-----------------------------------------------------------------------------
(* The loop: Start, HandleTriggerEvent, HandleEvent.                       *)
loopUnchanged == <<buffer, putPos, postVars, main>>

LoopBegin ==
  /\ loop = "begin"
  /\ isShutdown' = FALSE
  /\ loop' = "head"
  /\ UNCHANGED <<loopUnchanged, getPos, numDatas, pipe, callback>>

LoopHead ==
  /\ loop = "head"
  /\ loop' = IF isShutdown THEN "end" ELSE "pop"
  /\ UNCHANGED <<loopUnchanged, getPos, numDatas, pipe, isShutdown, callback>>

Pop ==
  /\ loop = "pop"
  /\ IF numDatas > 0
     THEN /\ callback' = buffer[getPos]
          /\ getPos' = Add(getPos)
          /\ loop' = "popped"
     ELSE loop' = "size" /\ UNCHANGED <<callback, getPos>>
  /\ UNCHANGED <<loopUnchanged, numDatas, pipe, isShutdown>>

PopCount ==
  /\ loop = "popped"
  /\ numDatas' = numDatas - 1
  /\ loop' = "callback"
  /\ UNCHANGED <<loopUnchanged, getPos, pipe, isShutdown, callback>>

(* A callback, or the handlers of the channels that were ready, return.    *)
Return ==
  /\ loop \in {"callback", "handle"} /\ post[Loop] = "idle"
  /\ loop' = IF loop = "callback" THEN "size" ELSE "head"
  /\ UNCHANGED <<loopUnchanged, getPos, numDatas, pipe, isShutdown, callback>>

PollAnyway == "wait"                    \* a slip: one event for each poll
PollOrPop == IF numDatas > 0 THEN "pop" ELSE "wait"
TestSize ==
  /\ loop = "size"
  /\ loop' = PollOrPop
  /\ UNCHANGED <<loopUnchanged, getPos, numDatas, pipe, isShutdown, callback>>

(* The poll returns for the pipe (Wake empties it) or for a socket, which  *)
(* may be the listening one.                                               *)
Ready == {"connect", "handle"}

Wake ==
  /\ loop = "wait" /\ pipe
  /\ pipe' = FALSE
  /\ loop' \in Ready
  /\ UNCHANGED <<loopUnchanged, getPos, numDatas, isShutdown, callback>>

SocketReady ==
  /\ loop = "wait"
  /\ loop' \in Ready
  /\ UNCHANGED <<loopUnchanged, getPos, numDatas, pipe, isShutdown, callback>>

(* OnConnect, for a client that was accepted: GetTaskScheduler needs       *)
(* EventLoop::mutex_, which Quit has from its beginning to its end.        *)
Quitting == main \in {"write", "join"}

GetTaskScheduler ==
  /\ loop = "connect" /\ ~Quitting
  /\ loop' = "handle"
  /\ UNCHANGED <<loopUnchanged, getPos, numDatas, pipe, isShutdown, callback>>

-----------------------------------------------------------------------------
(* EventLoop::Quit: the mutex, Stop of the scheduler, then the join.       *)
quitUnchanged == <<ringVars, postVars, loop, callback>>

Stop ==
  /\ main = "run"
  /\ isShutdown' = TRUE
  /\ main' = "write"
  /\ UNCHANGED <<quitUnchanged, pipe>>

StopWrite ==
  /\ main = "write"
  /\ pipe' = Signalled
  /\ main' = "join"
  /\ UNCHANGED <<quitUnchanged, isShutdown>>

Join ==
  /\ main = "join" /\ loop = "end"
  /\ main' = "joined"
  /\ UNCHANGED <<quitUnchanged, pipe, isShutdown>>

-----------------------------------------------------------------------------
PostStep(t) == PostLock(t) \/ PushStore(t) \/ PushCount(t) \/ PostWrite(t)
LoopStep == LoopBegin \/ LoopHead \/ Pop \/ PopCount \/ Return \/ TestSize \/ Wake
              \/ GetTaskScheduler
QuitStep == StopWrite \/ Join

Next == \/ \E t \in Threads : PostTest(t) \/ PostStep(t)
        \/ LoopStep \/ SocketReady \/ Stop \/ QuitStep

Spec == Init /\ [][Next]_vars

(* Threads run and get the mutex; nobody has to post, to stop or to send.  *)
Fairness == /\ \A t \in Threads : SF_vars(PostStep(t))
            /\ WF_vars(LoopStep) /\ WF_vars(QuitStep)
FairSpec == Spec /\ Fairness

-----------------------------------------------------------------------------
(* The ring between getPos and putPos, as the loop will see it: an event   *)
(* counts from the increment of num_datas_ on, and is gone once Pop has    *)
(* moved it out, before the decrement.                                     *)
Waiting == IF loop = "popped" THEN numDatas - 1 ELSE numDatas
Wrap(pos) == IF pos < Capacity THEN pos ELSE pos - Capacity
Queue == [i \in 1..Waiting |-> buffer[Wrap(getPos + i - 1)]]

(* The ring with its two unsynchronised ends is a bounded queue: events    *)
(* come out once each and in the order they went in.                       *)
AbstractQueue == INSTANCE EventQueue WITH queue <- Queue, current <- callback
QueueSpec == AbstractQueue!Spec

(* The loop never sleeps over an event or a stop: when it waits and the    *)
(* pipe is empty, whoever has just added or stopped has yet to write.      *)
NoMissedWakeup ==
  loop = "wait" /\ ~pipe =>
    /\ numDatas > 0 => \E t \in Threads : post[t] = "write"
    /\ isShutdown => main = "write"

(* The handler of an accept waits for the mutex of a Quit that waits for   *)
(* the loop: neither ever goes on.                                         *)
AcceptMeetsQuit == loop = "connect" /\ Quitting

(* Every event in the queue is run, unless the loop ends before, or Quit   *)
(* is called while a client is being accepted (TaskScheduler.cpp 89-98).   *)
EventsRun ==
  \A e \in Events :
    (\E i \in 1..Len(Queue) : Queue[i] = e) ~>
       (callback = e \/ loop = "end" \/ AcceptMeetsQuit)

(* Once is_shutdown_ is set past the reset in Start, the loop leaves,      *)
(* although it may be in its poll, and Quit returns; the one thing that    *)
(* keeps them is the mutex that Quit holds while it joins, when the loop   *)
(* is accepting a client (EventLoop.cpp 103-117 and 33, RtspServer.cpp 99).*)
QuitReturns ==
  isShutdown /\ loop # "begin" ~> main = "joined" \/ AcceptMeetsQuit
=============================================================================
