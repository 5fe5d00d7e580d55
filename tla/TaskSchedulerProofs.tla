------------------------ MODULE TaskSchedulerProofs -------------------------
(***************************************************************************)
(* TaskScheduler implements EventQueue and never sleeps over an event, for *)
(* every capacity and every set of threads; and, in the second half, the   *)
(* timers of its turn, TimerQueue, agree and are not slept over, for every *)
(* set of timers and delays.                                               *)
(***************************************************************************)
EXTENDS TaskScheduler, TimerQueue, SequenceTheorems, WellFoundedInduction, TLAPS

(* The events in the ring: those that wait and the one that a thread has   *)
(* stored but not counted yet.                                             *)
Counting == \E t \in Threads : post[t] = "count"
Filled == IF Counting THEN Waiting + 1 ELSE Waiting
Slot(k) == Wrap(getPos + k)

(* Whoever is between its lock and its unlock is the owner of the mutex.   *)
Locked == \A t \in Threads : post[t] \in {"push", "count", "write"} => mutex = t
Begun == \A t \in Threads : post[t] # "idle" => posted[t] # 0
(* What is filled, and the slot that Pop has emptied and not yet given     *)
(* back, fit into the ring.                                                *)
Bounded == /\ Counting => numDatas < Capacity
           /\ loop = "popped" => numDatas > 0
(* Events lie one after the other from getPos up to putPos.                *)
PutFollows == putPos = Slot(Filled)
Contents == \A k \in 0..(Filled - 1) : buffer[Slot(k)] \in Events
Ring == TypeOK /\ Locked /\ Begun /\ Bounded /\ PutFollows /\ Contents

-----------------------------------------------------------------------------
(* Arithmetic of positions.                                                *)

(* Where one position after another wraps to.                              *)
LEMMA WrapAround ==
  ASSUME NEW g \in Positions, NEW k \in 0..Capacity
  PROVE  /\ Wrap(g + k) \in Positions
         /\ k < Capacity => Add(Wrap(g + k)) = Wrap(g + (k + 1))
         /\ k < Capacity => Wrap(Add(g) + k) = Wrap(g + (k + 1))
         /\ Add(g) \in Positions
         /\ Wrap(g) = g
  BY SchedulerAssumption DEF Wrap, Add, Positions

(* Two places less than a ring apart are different.                        *)
LEMMA WrapApart ==
  ASSUME NEW g \in Positions, NEW j \in 0..Capacity, NEW k \in 0..Capacity,
         j < k, k - j < Capacity
  PROVE  Wrap(g + j) # Wrap(g + k)
  BY SchedulerAssumption DEF Wrap, Positions

(* How many events wait and how many are filled.                           *)
LEMMA Sizes ==
  ASSUME TypeOK, Bounded
  PROVE  /\ Waiting \in 0..Capacity /\ Filled \in 0..Capacity
         /\ Waiting <= numDatas /\ Waiting <= Filled
         /\ Counting => Filled = Waiting + 1
         /\ ~Counting => Filled = Waiting
  BY SchedulerAssumption DEF TypeOK, Bounded, Waiting, Filled

QueueShape == /\ Queue \in Seq(Events) /\ Len(Queue) = Waiting
              /\ \A i \in 1..Waiting : Queue[i] = buffer[Slot(i - 1)]

(* The queue is a sequence of the events in the ring.                      *)
LEMMA QueueIsSeq == Ring => QueueShape
<1> SUFFICES ASSUME Ring PROVE QueueShape
  OBVIOUS
<1>1. Waiting \in Nat /\ Waiting <= Filled /\ Filled \in Nat
  BY Sizes, SchedulerAssumption DEF Ring
<1>2. ASSUME NEW i \in 1..Waiting
      PROVE  /\ getPos + i - 1 = getPos + (i - 1)
             /\ buffer[Slot(i - 1)] \in Events
  <2>1. i - 1 \in 0..(Filled - 1)
    BY <1>1
  <2>2. getPos + i - 1 = getPos + (i - 1)
    BY <1>1, SchedulerAssumption DEF Ring, TypeOK, Positions
  <2> QED
    BY <2>1, <2>2 DEF Ring, Contents
<1>3. \A i \in 1..Waiting : Queue[i] = buffer[Slot(i - 1)]
  BY <1>2 DEF Queue, Slot
<1>4. Queue \in [1..Waiting -> Events]
  BY <1>2 DEF Queue, Slot
<1>5. Queue \in Seq(Events)
  BY <1>1, <1>4, SeqDef
<1>6. Len(Queue) = Waiting
  BY <1>1, <1>4, <1>5, LenProperties
<1> QED
  BY <1>3, <1>5, <1>6 DEF QueueShape

(* The same of the next state.                                             *)
LEMMA QueueIsSeqNext == Ring' => QueueShape'
  BY QueueIsSeq, PTL
-----------------------------------------------------------------------------
(* Nothing is in the ring at first.                                        *)
LEMMA RingInit == Init => Ring
<1> SUFFICES ASSUME Init PROVE Ring
  OBVIOUS
<1>1. 0 \in Positions /\ Capacity \in Nat
  BY SchedulerAssumption DEF Positions
<1>2. TypeOK
  <2>1. 0 \in 0..Capacity /\ 0 \in 0..MaxPosts
    BY SchedulerAssumption
  <2>2. /\ buffer \in [Positions -> Events \cup {NoEvent}]
        /\ post \in [Threads -> {"idle", "lock", "push", "count", "write"}]
        /\ posted \in [Threads -> 0..MaxPosts]
    BY <2>1 DEF Init
  <2>3. putPos \in Positions /\ getPos \in Positions /\ numDatas \in 0..Capacity
    BY <1>1, <2>1 DEF Init
  <2> QED
    BY <2>2, <2>3 DEF Init, TypeOK
<1>3. Locked /\ Begun /\ Bounded /\ ~Counting /\ Waiting = 0
  BY DEF Init, Locked, Begun, Bounded, Counting, Waiting
<1>4. Filled = 0 /\ Slot(0) = 0
  BY <1>1, <1>3, WrapAround DEF Init, Filled, Slot
<1>5. PutFollows
  BY <1>4 DEF Init, PutFollows
<1>6. Contents
  BY <1>4 DEF Contents
<1> QED
  BY <1>2, <1>3, <1>5, <1>6 DEF Ring

(* What only looks at the ring does not change when the ring, the number   *)
(* of waiting events and the storing thread stay.                          *)
LEMMA RingUntouched ==
  ASSUME Ring, UNCHANGED <<buffer, putPos, getPos, Waiting>>, Counting' = Counting
  PROVE  PutFollows' /\ Contents' /\ Queue' = Queue
<1>1. Filled' = Filled
  BY DEF Filled
<1>2. \A k : Slot(k)' = Slot(k)
  BY DEF Slot
<1> QED
  BY <1>1, <1>2 DEF Ring, PutFollows, Contents, Queue

(* A step of the abstract queue, or none.                                  *)
QueueStep == AbstractQueue!Post \/ AbstractQueue!Take \/ UNCHANGED <<Queue, callback>>

-----------------------------------------------------------------------------
(* The steps of AddTriggerEvent that store nothing.                        *)
LEMMA OtherPostSteps ==
  ASSUME Ring, NEW t \in Threads,
         \/ PostTest(t) \/ PostLock(t) \/ PostWrite(t)
         \/ PushStore(t) /\ ~Room
  PROVE  Ring' /\ QueueStep
<1>1. UNCHANGED <<ringVars, loop, callback>>
  BY DEF PostTest, PostLock, PostWrite, PushStore, Room, ringVars
<1>2. TypeOK'
  <2>1. /\ post' \in [Threads -> {"idle", "lock", "push", "count", "write"}]
        /\ mutex' \in Threads \cup {NoThread}
    BY DEF Ring, TypeOK, PostTest, PostLock, PostWrite, PushStore, Room
  <2>2. posted' \in [Threads -> 0..MaxPosts]
    <3>1. CASE PostTest(t)
      <4>1. posted[t] + 1 \in 0..MaxPosts
        BY <3>1, SchedulerAssumption DEF Ring, TypeOK, PostTest
      <4> QED
        BY <3>1, <4>1 DEF Ring, TypeOK, PostTest
    <3>2. CASE ~PostTest(t)
      BY <3>2 DEF Ring, TypeOK, PostLock, PostWrite, PushStore
    <3> QED
      BY <3>1, <3>2
  <2>3. pipe' \in BOOLEAN /\ UNCHANGED <<isShutdown, main>>
    BY DEF Ring, TypeOK, PostTest, PostLock, PostWrite, PushStore, Signalled
  <2> QED
    BY <1>1, <2>1, <2>2, <2>3 DEF Ring, TypeOK, ringVars
<1>3. \A u \in Threads : post'[u] = "count" <=> post[u] = "count"
  BY DEF Ring, TypeOK, PostTest, PostLock, PostWrite, PushStore, Room
<1>4. Counting' = Counting /\ Waiting' = Waiting
  BY <1>1, <1>3 DEF Counting, Waiting, ringVars
<1>5. Locked'
  BY SchedulerAssumption DEF Ring, TypeOK, Locked, PostTest, PostLock, Unlocked, PostWrite,
     PushStore, Room
<1>8. Begun'
  BY SchedulerAssumption DEF Ring, TypeOK, Begun, PostTest, PostLock, PostWrite, PushStore, Room
<1>6. Bounded'
  BY <1>1, <1>4 DEF Ring, Bounded, ringVars
<1>7. PutFollows' /\ Contents' /\ Queue' = Queue
  BY <1>1, <1>4, RingUntouched DEF ringVars
<1> QED
  BY <1>1, <1>2, <1>5, <1>6, <1>7, <1>8 DEF Ring, QueueStep

(* The event is stored in the slot after the last one that is filled.      *)
LEMMA StoreStep ==
  ASSUME Ring, NEW t \in Threads, PushStore(t), Room
  PROVE  Ring' /\ QueueStep
<1>1. /\ post[t] = "push" /\ mutex = t /\ numDatas < Capacity
      /\ buffer' = [buffer EXCEPT ![putPos] = <<t, posted[t]>>]
      /\ putPos' = Add(putPos)
      /\ post' = [post EXCEPT ![t] = "count"]
      /\ UNCHANGED <<getPos, numDatas, mutex, posted, pipe, isShutdown, loop, callback, main>>
  BY DEF PushStore, Room, Ring, Locked
<1>2. ~Counting /\ Counting'
  BY <1>1 DEF Ring, Locked, TypeOK, Counting
<1>3. /\ Waiting \in 0..Capacity /\ Waiting < Capacity /\ Waiting' = Waiting
      /\ Filled = Waiting /\ Filled' = Waiting + 1
  BY <1>1, <1>2, Sizes, SchedulerAssumption DEF Ring, TypeOK, Waiting, Filled
<1>4. /\ getPos \in Positions /\ putPos = Slot(Waiting) /\ putPos \in Positions
      /\ \A k : Slot(k)' = Slot(k)
  BY <1>1, <1>3 DEF Ring, TypeOK, PutFollows, Slot
<1>5. posted[t] \in 1..MaxPosts
  BY <1>1, SchedulerAssumption DEF Ring, TypeOK, Begun
<1>6. <<t, posted[t]>> \in Events
  BY <1>5 DEF Events
<1>7. TypeOK'
  <2>1. /\ buffer' \in [Positions -> Events \cup {NoEvent}]
        /\ post' \in [Threads -> {"idle", "lock", "push", "count", "write"}]
    BY <1>1, <1>6 DEF Ring, TypeOK
  <2>2. putPos' \in Positions
    BY <1>1, <1>3, <1>4, WrapAround
  <2> QED
    BY <1>1, <2>1, <2>2 DEF Ring, TypeOK
<1>8. Locked' /\ Begun' /\ Bounded'
  BY <1>1 DEF Ring, TypeOK, Locked, Begun, Bounded
<1>9. PutFollows'
  <2>1. Add(putPos) = Slot(Waiting + 1)
    BY <1>3, <1>4, WrapAround DEF Slot
  <2> QED
    BY <1>1, <1>3, <1>4, <2>1 DEF PutFollows
<1>10. \A k \in 0..(Waiting - 1) : buffer'[Slot(k)] = buffer[Slot(k)]
  <2> SUFFICES ASSUME NEW k \in 0..(Waiting - 1) PROVE Slot(k) # putPos
    BY <1>1 DEF Ring, TypeOK
  <2>1. k \in 0..Capacity /\ k < Waiting /\ Waiting - k < Capacity
    BY <1>3, SchedulerAssumption
  <2> QED
    BY <1>3, <1>4, <2>1, WrapApart DEF Slot
<1>11. Contents'
  <2> SUFFICES ASSUME NEW k \in 0..Waiting PROVE buffer'[Slot(k)] \in Events
    BY <1>3, <1>4, SchedulerAssumption DEF Contents
  <2>1. CASE k = Waiting
    BY <1>1, <1>4, <1>6, <2>1 DEF Ring, TypeOK
  <2>2. CASE k # Waiting
    <3>1. k \in 0..(Waiting - 1)
      BY <1>3, <2>2
    <3> QED
      BY <1>3, <1>10, <3>1 DEF Ring, Contents
  <2> QED
    BY <2>1, <2>2
<1>12. Queue' = Queue
  <2>1. \A i \in 1..Waiting : /\ getPos + i - 1 = getPos + (i - 1)
                             /\ i - 1 \in 0..(Waiting - 1)
    BY <1>3, <1>4, SchedulerAssumption DEF Positions
  <2>2. \A i \in 1..Waiting : buffer'[Wrap(getPos + i - 1)] = buffer[Wrap(getPos + i - 1)]
    BY <1>10, <2>1 DEF Slot
  <2> QED
    BY <1>1, <1>3, <2>2 DEF Queue
<1> QED
  BY <1>1, <1>7, <1>8, <1>9, <1>11, <1>12 DEF Ring, QueueStep

(* The event that was stored counts from now on: it is posted.             *)
LEMMA CountStep ==
  ASSUME Ring, NEW t \in Threads, PushCount(t)
  PROVE  Ring' /\ QueueStep
<1>1. /\ post[t] = "count" /\ mutex = t /\ Counting
      /\ numDatas' = numDatas + 1
      /\ post' = [post EXCEPT ![t] = "write"]
      /\ UNCHANGED <<buffer, putPos, getPos, mutex, posted, pipe, isShutdown, loop, callback,
                     main>>
  BY DEF PushCount, Ring, Locked, Counting
<1>2. ~Counting'
  BY <1>1 DEF Ring, Locked, TypeOK, Counting
<1>3. numDatas \in 0..Capacity /\ numDatas < Capacity
  BY <1>1 DEF Ring, Bounded, TypeOK
<1>4. /\ Waiting \in 0..Capacity /\ Waiting < Capacity /\ Waiting' = Waiting + 1
      /\ Filled = Waiting + 1 /\ Filled' = Waiting + 1
  BY <1>1, <1>2, <1>3, Sizes, SchedulerAssumption DEF Ring, Waiting, Filled
<1>5. TypeOK' /\ Locked' /\ Begun'
  BY <1>1, <1>3, SchedulerAssumption DEF Ring, TypeOK, Locked, Begun
<1>6. Bounded'
  BY <1>1, <1>2, <1>3, SchedulerAssumption DEF Bounded
<1>7. \A k : Slot(k)' = Slot(k)
  BY <1>1 DEF Slot
<1>8. PutFollows' /\ Contents'
  BY <1>1, <1>4, <1>7 DEF Ring, PutFollows, Contents
<1>9. buffer[Slot(Waiting)] \in Events
  BY <1>4, SchedulerAssumption DEF Ring, Contents
<1>10. Queue' = Append(Queue, buffer[Slot(Waiting)])
  <2> DEFINE q == Append(Queue, buffer[Slot(Waiting)])
  <2>1. /\ Queue \in Seq(Events) /\ Len(Queue) = Waiting
        /\ \A i \in 1..Waiting : Queue[i] = buffer[Slot(i - 1)]
    BY QueueIsSeq DEF QueueShape
  <2>2. Ring'
    BY <1>5, <1>6, <1>8 DEF Ring
  <2>3. /\ Queue' \in Seq(Events) /\ Len(Queue)' = Waiting'
        /\ \A i \in 1..Waiting' : Queue'[i] = buffer'[Slot(i - 1)']
    BY <2>2, QueueIsSeqNext DEF QueueShape
  <2>4. /\ q \in Seq(Events) /\ Len(q) = Waiting + 1 /\ q[Waiting + 1] = buffer[Slot(Waiting)]
        /\ \A i \in 1..Waiting : q[i] = Queue[i]
    BY <1>9, <2>1, AppendProperties
  <2>5. \A i \in 1..(Waiting + 1) : Queue'[i] = q[i]
    <3> SUFFICES ASSUME NEW i \in 1..(Waiting + 1) PROVE Queue'[i] = q[i]
      OBVIOUS
    <3> HIDE DEF q
    <3>1. Queue'[i] = buffer[Slot(i - 1)]
      BY <1>1, <1>4, <1>7, <2>3
    <3>2. CASE i = Waiting + 1
      <4>1. i - 1 = Waiting
        BY <1>4, <3>2
      <4> QED
        BY <2>4, <3>1, <3>2, <4>1
    <3>3. CASE i # Waiting + 1
      <4>1. i \in 1..Waiting
        BY <1>4, <3>3
      <4> QED
        BY <2>1, <2>4, <3>1, <4>1
    <3> QED
      BY <3>2, <3>3
  <2> HIDE DEF q
  <2>6. Queue' = q
    BY <1>4, <2>3, <2>4, <2>5, SeqEqual
  <2> QED
    BY <2>6 DEF q
<1>11. AbstractQueue!Post
  <2>1. Len(Queue) < Capacity
    BY <1>4, QueueIsSeq DEF QueueShape
  <2> QED
    BY <1>1, <1>9, <1>10, <2>1 DEF AbstractQueue!Post
<1> QED
  BY <1>5, <1>6, <1>8, <1>11 DEF Ring, QueueStep

-----------------------------------------------------------------------------
(* Pop moves the first event out: it is taken.                             *)
LEMMA PopStep ==
  ASSUME Ring, Pop, numDatas > 0
  PROVE  Ring' /\ QueueStep
<1>1. /\ loop = "pop" /\ loop' = "popped"
      /\ callback' = buffer[getPos] /\ getPos' = Add(getPos)
      /\ UNCHANGED <<buffer, putPos, numDatas, mutex, post, posted, pipe, isShutdown, main>>
  BY DEF Pop, loopUnchanged, postVars
<1>2. Counting' = Counting
  BY <1>1 DEF Counting
<1>3. /\ numDatas \in 1..Capacity /\ Waiting = numDatas /\ Waiting' = Waiting - 1
      /\ Waiting \in 1..Capacity /\ Filled \in 1..Capacity /\ Filled' = Filled - 1
      /\ Waiting <= Filled
  BY <1>1, <1>2, Sizes, SchedulerAssumption DEF Ring, TypeOK, Waiting, Filled
<1>4. getPos \in Positions /\ getPos' \in Positions /\ Slot(0) = getPos
  BY <1>1, <1>3, WrapAround, SchedulerAssumption DEF Ring, TypeOK, Slot, Wrap, Positions
<1>5. \A k \in 0..(Capacity - 1) : Slot(k)' = Slot(k + 1)
  BY <1>1, <1>4, WrapAround, SchedulerAssumption DEF Slot
<1>6. buffer[getPos] \in Events
  BY <1>3, <1>4, SchedulerAssumption DEF Ring, Contents
<1>7. TypeOK' /\ Locked' /\ Begun' /\ Bounded'
  BY <1>1, <1>2, <1>3, <1>4, <1>6 DEF Ring, TypeOK, Locked, Begun, Bounded
<1>8. PutFollows'
  <2>1. Filled - 1 \in 0..(Capacity - 1) /\ (Filled - 1) + 1 = Filled
    BY <1>3, SchedulerAssumption
  <2>2. Wrap(Add(getPos) + (Filled - 1)) = Wrap(getPos + Filled)
    BY <1>4, <2>1, WrapAround, SchedulerAssumption
  <2>3. putPos = Wrap(getPos + Filled)
    BY DEF Ring, PutFollows, Slot
  <2>4. putPos' = Wrap(getPos' + Filled')
    BY <1>1, <1>3, <2>2, <2>3
  <2> QED
    BY <2>4 DEF PutFollows, Slot
<1>9. Contents'
  <2> SUFFICES ASSUME NEW k \in 0..(Filled - 2) PROVE buffer[Slot(k)'] \in Events
    BY <1>1, <1>3, SchedulerAssumption DEF Contents
  <2>1. k \in 0..(Capacity - 1) /\ k + 1 \in 0..(Filled - 1)
    BY <1>3, SchedulerAssumption
  <2> QED
    BY <1>5, <2>1 DEF Ring, Contents
<1>10. /\ Queue \in Seq(Events) /\ Len(Queue) = Waiting /\ Queue # <<>>
       /\ \A i \in 1..Waiting : Queue[i] = buffer[Slot(i - 1)]
  BY <1>3, QueueIsSeq, EmptySeq DEF QueueShape
<1>11. Head(Queue) = callback'
  <2>1. Head(Queue) = Queue[1]
    BY <1>10
  <2>2. 1 \in 1..Waiting /\ 1 - 1 = 0
    BY <1>3
  <2> QED
    BY <1>1, <1>4, <1>10, <2>1, <2>2
<1>12. Queue' = Tail(Queue)
  <2> DEFINE q == Tail(Queue)
  <2>1. Ring'
    BY <1>7, <1>8, <1>9 DEF Ring
  <2>2. /\ Queue' \in Seq(Events) /\ Len(Queue)' = Waiting'
        /\ \A i \in 1..Waiting' : Queue'[i] = buffer'[Slot(i - 1)']
    BY <2>1, QueueIsSeqNext DEF QueueShape
  <2>3. /\ q \in Seq(Events) /\ Len(q) = Waiting - 1
        /\ \A i \in 1..(Waiting - 1) : q[i] = Queue[i + 1]
    BY <1>10, HeadTailProperties
  <2> HIDE DEF q
  <2>4. \A i \in 1..(Waiting - 1) : Queue'[i] = q[i]
    <3> SUFFICES ASSUME NEW i \in 1..(Waiting - 1) PROVE Queue'[i] = q[i]
      OBVIOUS
    <3>1. /\ i - 1 \in 0..(Capacity - 1) /\ (i - 1) + 1 = i
          /\ i + 1 \in 1..Waiting /\ (i + 1) - 1 = i
      BY <1>3, SchedulerAssumption
    <3>2. Queue'[i] = buffer[Slot(i - 1)']
      BY <1>1, <1>3, <2>2
    <3>3. Slot(i - 1)' = Slot(i)
      <4>1. Wrap(Add(getPos) + (i - 1)) = Wrap(getPos + i)
        BY <1>4, <3>1, WrapAround, SchedulerAssumption
      <4> QED
        BY <1>1, <4>1 DEF Slot
    <3>4. Queue[i + 1] = buffer[Slot(i)]
      BY <1>10, <3>1
    <3> QED
      BY <2>3, <3>2, <3>3, <3>4
  <2>5. Queue' = q
    BY <1>3, <2>2, <2>3, <2>4, SeqEqual
  <2> QED
    BY <2>5 DEF q
<1> QED
  BY <1>7, <1>8, <1>9, <1>10, <1>11, <1>12 DEF Ring, QueueStep, AbstractQueue!Take

(* The other steps of the loop and of Quit; PopCount gives the slot back.  *)
OtherLoopStep == \/ LoopBegin \/ LoopHead \/ PopCount \/ Return \/ TestSize \/ Wake
                 \/ SocketReady \/ GetTaskScheduler \/ (Pop /\ ~(numDatas > 0))
QuitSteps == Stop \/ StopWrite \/ Join

(* None of them moves an event in or out.                                  *)
LEMMA OtherSteps ==
  ASSUME Ring, OtherLoopStep \/ QuitSteps
  PROVE  Ring' /\ QueueStep
<1>1. UNCHANGED <<buffer, putPos, getPos, mutex, post, posted, callback>>
  BY DEF OtherLoopStep, QuitSteps, LoopBegin, LoopHead, Pop, PopCount, Return, TestSize, Wake,
     SocketReady, GetTaskScheduler, Ready, Stop, StopWrite, Join, loopUnchanged, quitUnchanged,
     ringVars, postVars
<1>2. Counting' = Counting
  BY <1>1 DEF Counting
<1>3. \/ loop = "popped" /\ loop' = "callback" /\ numDatas' = numDatas - 1
      \/ (loop = "popped" <=> loop' = "popped") /\ numDatas' = numDatas
  BY DEF OtherLoopStep, QuitSteps, LoopBegin, LoopHead, Pop, PopCount, Return, TestSize, Wake,
     SocketReady, GetTaskScheduler, Ready, Stop, StopWrite, Join, loopUnchanged, quitUnchanged,
     ringVars, postVars,
     PollOrPop
<1>4. /\ numDatas \in 0..Capacity /\ numDatas' \in 0..Capacity
      /\ Waiting' = Waiting /\ numDatas' <= numDatas
  BY <1>3, SchedulerAssumption DEF Ring, TypeOK, Bounded, Waiting
<1>5. Bounded'
  BY <1>2, <1>3, <1>4, SchedulerAssumption DEF Ring, Bounded
<1>6. TypeOK'
  <2>1. loop' \in {"begin", "head", "pop", "popped", "callback", "size", "wait",
               "connect", "handle", "end"}
    BY DEF Ring, TypeOK, OtherLoopStep, QuitSteps, LoopBegin, LoopHead, Pop, PopCount, Return,
       TestSize, Wake, SocketReady, GetTaskScheduler, Ready, Stop, StopWrite, Join, quitUnchanged,
       PollOrPop
  <2>2. main' \in {"run", "write", "join", "joined"}
    BY DEF Ring, TypeOK, OtherLoopStep, QuitSteps, LoopBegin, LoopHead, Pop, PopCount, Return,
       TestSize, Wake, SocketReady, GetTaskScheduler, Ready, Stop, StopWrite, Join, loopUnchanged
  <2>3. pipe' \in BOOLEAN /\ isShutdown' \in BOOLEAN
    BY DEF Ring, TypeOK, OtherLoopStep, QuitSteps, LoopBegin, LoopHead, Pop, PopCount, Return,
       TestSize, Wake, SocketReady, GetTaskScheduler, Ready, Stop, StopWrite, Join, Signalled
  <2> QED
    BY <1>1, <1>4, <2>1, <2>2, <2>3 DEF Ring, TypeOK
<1>7. Locked' /\ Begun'
  BY <1>1 DEF Ring, Locked, Begun
<1>8. PutFollows' /\ Contents' /\ Queue' = Queue
  BY <1>1, <1>2, <1>4, RingUntouched
<1> QED
  BY <1>1, <1>5, <1>6, <1>7, <1>8 DEF Ring, QueueStep

(* Every step keeps the ring in order and is a step of the queue, or none. *)
LEMMA RingNext == Ring /\ [Next]_vars => Ring' /\ QueueStep
<1> SUFFICES ASSUME Ring, [Next]_vars PROVE Ring' /\ QueueStep
  OBVIOUS
<1>1. CASE UNCHANGED vars
  <2>1. /\ TypeOK' /\ Locked' /\ Begun' /\ Bounded'
        /\ Counting' = Counting /\ Waiting' = Waiting
    BY <1>1 DEF vars, ringVars, postVars, Ring, TypeOK, Locked, Begun, Bounded, Counting, Waiting
  <2>2. PutFollows' /\ Contents' /\ Queue' = Queue
    BY <1>1, <2>1, RingUntouched DEF vars, ringVars
  <2> QED
    BY <1>1, <2>1, <2>2 DEF vars, Ring, QueueStep
<1>2. ASSUME NEW t \in Threads, PostTest(t) \/ PostStep(t)
      PROVE  Ring' /\ QueueStep
  BY <1>2, OtherPostSteps, StoreStep, CountStep DEF PostStep
<1>3. CASE LoopStep \/ SocketReady \/ Stop \/ QuitStep
  BY <1>3, PopStep, OtherSteps DEF LoopStep, QuitStep, OtherLoopStep, QuitSteps
<1> QED
  BY <1>1, <1>2, <1>3 DEF Next

(* The ring is in order in every reachable state.                          *)
LEMMA RingHolds == Spec => []Ring
<1>1. Ring /\ [Next]_vars => Ring'
  BY RingNext
<1> QED
  BY <1>1, RingInit, PTL DEF Spec

(* Every variable keeps its type: in particular the ring never holds more  *)
(* than its capacity and its two positions stay inside.                    *)
THEOREM TypeCorrect == Spec => []TypeOK
<1>1. Ring => TypeOK
  BY DEF Ring
<1> QED
  BY <1>1, RingHolds, PTL

(* The scheduler implements EventQueue, whatever its capacity and however  *)
(* many threads post: no event is lost, repeated or overtaken in the ring. *)
THEOREM QueueImplemented == Spec => QueueSpec
<1>1. Init => AbstractQueue!Init
  <2> SUFFICES ASSUME Init PROVE AbstractQueue!Init
    OBVIOUS
  <2>1. Waiting = 0
    BY DEF Init, Waiting
  <2>2. Len(Queue) = 0 /\ Queue \in Seq(Events)
    BY <2>1, RingInit, QueueIsSeq DEF QueueShape
  <2>3. Queue = <<>>
    BY <2>2, EmptySeq
  <2> QED
    BY <2>3 DEF Init, AbstractQueue!Init
<1>2. Ring /\ [Next]_vars => [AbstractQueue!Post \/ AbstractQueue!Take]_<<Queue, callback>>
  BY RingNext DEF QueueStep
<1> QED
  BY <1>1, <1>2, RingHolds, PTL DEF Spec, QueueSpec, AbstractQueue!Spec

-----------------------------------------------------------------------------
(* From its stop to its end the loop has the pipe's byte before it, or the *)
(* byte is still to be written.                                            *)
StopSignalled ==
  isShutdown /\ ~pipe /\ loop \notin {"connect", "handle", "head", "end"} => main = "write"

(* That is so after every step.                                            *)
LEMMA StopStaysSignalled == StopSignalled /\ [Next]_vars => StopSignalled'
<1> SUFFICES ASSUME StopSignalled, [Next]_vars PROVE StopSignalled'
  OBVIOUS
<1>1. CASE UNCHANGED vars
  BY <1>1 DEF StopSignalled, vars
<1>2. ASSUME NEW t \in Threads, PostTest(t) \/ PostStep(t)
      PROVE  StopSignalled'
  BY <1>2 DEF PostTest, PostStep, PostLock, PushStore, PushCount, PostWrite, Signalled,
     StopSignalled
<1>3. CASE LoopStep \/ SocketReady
  BY <1>3 DEF LoopStep, LoopBegin, LoopHead, Pop, PopCount, Return, TestSize, Wake, SocketReady,
     GetTaskScheduler, Ready, PollOrPop, loopUnchanged, StopSignalled
<1>4. CASE Stop \/ QuitStep
  BY <1>4 DEF QuitStep, Stop, StopWrite, Join, quitUnchanged, Signalled, StopSignalled
<1> QED
  BY <1>1, <1>2, <1>3, <1>4 DEF Next

(* The loop never sleeps over an event that is in the ring, nor over a     *)
(* stop, whatever the threads' interleaving.                               *)
THEOREM WakeupSafe == Spec => []NoMissedWakeup
<1>1. Init => NoMissedWakeup /\ StopSignalled
  BY DEF Init, NoMissedWakeup, StopSignalled
<1>2. ASSUME Ring, NoMissedWakeup, StopSignalled, [Next]_vars
      PROVE  NoMissedWakeup'
  <2>1. CASE UNCHANGED vars
    BY <1>2, <2>1 DEF NoMissedWakeup, vars, ringVars, postVars
  <2>2. ASSUME NEW t \in Threads, PostTest(t) \/ PostLock(t) \/ PushStore(t)
        PROVE  NoMissedWakeup'
    <3>1. UNCHANGED <<numDatas, pipe, isShutdown, loop, main>>
      BY <2>2 DEF PostTest, PostLock, PushStore, ringVars
    <3>2. \A u \in Threads : post[u] = "write" => post'[u] = "write"
      BY <1>2, <2>2 DEF Ring, TypeOK, PostTest, PostLock, PushStore
    <3> QED
      BY <1>2, <3>1, <3>2 DEF NoMissedWakeup
  <2>3. ASSUME NEW t \in Threads, PushCount(t)
        PROVE  NoMissedWakeup'
    <3>1. post'[t] = "write" /\ UNCHANGED <<pipe, isShutdown, loop, main>>
      BY <1>2, <2>3 DEF Ring, TypeOK, PushCount
    <3> QED
      BY <1>2, <3>1 DEF NoMissedWakeup
  <2>4. ASSUME NEW t \in Threads, PostWrite(t)
        PROVE  NoMissedWakeup'
    BY <2>4 DEF PostWrite, Signalled, NoMissedWakeup
  <2>5. CASE LoopBegin \/ LoopHead \/ Pop \/ PopCount \/ Return \/ Wake \/ SocketReady
            \/ GetTaskScheduler
    <3>1. loop' # "wait"
      BY <2>5 DEF LoopBegin, LoopHead, Pop, PopCount, Return, Wake, SocketReady,
         GetTaskScheduler, Ready
    <3> QED
      BY <3>1 DEF NoMissedWakeup
  <2>6. CASE TestSize
    <3>1. loop' = "wait" => ~(numDatas' > 0)
      BY <2>6 DEF TestSize, PollOrPop, loopUnchanged
    <3>2. loop = "size" /\ UNCHANGED <<pipe, isShutdown, main>>
      BY <2>6 DEF TestSize, loopUnchanged
    <3> QED
      BY <1>2, <3>1, <3>2 DEF NoMissedWakeup, StopSignalled
  <2>7. CASE Stop \/ StopWrite \/ Join
    BY <1>2, <2>7 DEF Stop, StopWrite, Join, quitUnchanged, ringVars, postVars, Signalled,
       NoMissedWakeup
  <2> QED
    BY <1>2, <2>1, <2>2, <2>3, <2>4, <2>5, <2>6, <2>7 DEF Next, PostStep, LoopStep, QuitStep
<1> QED
  BY <1>1, <1>2, RingHolds, StopStaysSignalled, PTL DEF Spec

-----------------------------------------------------------------------------
(* The timers of the loop.                                                 *)

(* The three facts need one another: the queue's first timer exists        *)
(* because the two containers agree, and the loop sleeps until it because  *)
(* it exists.                                                              *)
Inductive == TimersTypeOK /\ QueuesAgree /\ NoMissedTimer

(* Times, keys and timers are numbers.                                     *)
LEMMA Numbers ==
  /\ TimerIds \subseteq Nat /\ Times \subseteq Nat /\ Keys \subseteq Nat
  /\ \A ms \in Delays \cup {0}, time \in Times : time + Interval(ms) \in Keys
  /\ \A ms \in Delays, time \in Times : time + ms \in Keys
  /\ Times \subseteq Keys \cup Times
  BY TimerAssumption DEF TimerIds, Times, Keys, Interval

(* A set of numbers that is not empty has a least one.                     *)
LEMMA HasLeast ==
  ASSUME NEW S \in SUBSET Nat, S # {}
  PROVE  \E n \in S : \A m \in S : n <= m
<1>1. PICK n \in S : \A m \in S : ~ (<<m, n>> \in OpToRel(<, Nat))
  BY NatLessThanWellFounded, WFMin
<1>2. ASSUME NEW m \in S PROVE n <= m
  <2>1. m \in Nat /\ n \in Nat
    OBVIOUS
  <2>2. ~(m < n)
    BY <1>1, <2>1 DEF OpToRel
  <2> QED
    BY <2>1, <2>2
<1> QED
  BY <1>2

(* A set of pairs of numbers that is not empty has a first one.            *)
LEMMA HasFirst ==
  ASSUME NEW S \in SUBSET (Nat \X Nat), S # {}
  PROVE  \E a \in S : \A b \in S \ {a} : Before(a, b)
<1> DEFINE Firsts == {a[1] : a \in S}
<1>1. Firsts \subseteq Nat /\ Firsts # {}
  OBVIOUS
<1>2. PICK n \in Firsts : \A m \in Firsts : n <= m
  BY <1>1, HasLeast
<1> DEFINE Seconds == {a[2] : a \in {b \in S : b[1] = n}}
<1>3. Seconds \subseteq Nat /\ Seconds # {}
  BY <1>2
<1>4. PICK k \in Seconds : \A m \in Seconds : k <= m
  BY <1>3, HasLeast
<1>5. PICK a \in S : a[1] = n /\ a[2] = k
  BY <1>4
<1>6. ASSUME NEW b \in S \ {a}
      PROVE  Before(a, b)
  <2>1. a = <<n, k>> /\ b = <<b[1], b[2]>> /\ b[1] \in Nat /\ b[2] \in Nat /\ n \in Nat /\ k \in Nat
    BY <1>5, <1>6
  <2>2. n <= b[1]
    BY <1>2, <1>6
  <2>3. b[1] = n => k <= b[2] /\ b[2] # k
    BY <1>4, <1>6, <2>1
  <2> QED
    BY <1>5, <2>1, <2>2, <2>3 DEF Before
<1> QED
  BY <1>5, <1>6

(* events_.begin() of a queue that is not empty.                           *)
LEMMA FirstOfEvents ==
  ASSUME TimersTypeOK, events # {}
  PROVE  /\ First \in events
         /\ First[1] \in Keys /\ First[2] \in 1..lastTimerId
         /\ \A event \in events : First[1] <= event[1]
<1>1. events \in SUBSET (Nat \X Nat)
  <2>1. Keys \subseteq Nat /\ 1..lastTimerId \subseteq Nat
    BY Numbers
  <2> QED
    BY <2>1 DEF TimersTypeOK
<1>2. PICK a \in events : \A b \in events \ {a} : Before(a, b)
  BY <1>1, HasFirst
<1>3. First \in events /\ \A b \in events \ {First} : Before(First, b)
  BY <1>2 DEF First
<1>4. First \in Nat \X Nat
  BY <1>1, <1>3
<1>5. \A event \in events : First[1] <= event[1]
  BY <1>1, <1>3, <1>4 DEF Before
<1> QED
  BY <1>3, <1>5 DEF TimersTypeOK

(* Nothing is queued at first.                                             *)
LEMMA InductiveInit == TimersInit => Inductive
<1>1. TimersInit => TimersTypeOK
  BY TimerAssumption, Numbers DEF TimersInit, TimersTypeOK, TimerIds, Times, Keys
<1> QED
  BY <1>1 DEF TimersInit, Inductive, QueuesAgree, NoMissedTimer

(* AddTimer queues the timer under the time it remembers, unless its delay *)
(* is nothing; a loop that polls does not know it.                         *)
LEMMA AddStep ==
  ASSUME Inductive, NEW ms \in Delays, AddTimer(ms)
  PROVE  Inductive'
<1> DEFINE id == lastTimerId + 1
<1>1. id \in TimerIds /\ lastTimerId \in Nat /\ lastTimerId' = id
  BY TimerAssumption DEF Inductive, TimersTypeOK, AddTimer, TimerIds
<1>2. 1..lastTimerId \subseteq 1..id /\ id \in 1..id /\ id \notin 1..lastTimerId
      /\ 1..lastTimerId \subseteq TimerIds
  BY <1>1, TimerAssumption DEF TimerIds
<1>3. now + Interval(ms) \in Keys /\ now + ms \in Keys
  BY Numbers DEF Inductive, TimersTypeOK
<1>4. /\ msec' = [msec EXCEPT ![id] = ms]
      /\ nextTimeout' = [nextTimeout EXCEPT ![id] = now + Interval(ms)]
      /\ timers' = timers \cup {id}
      /\ events' = events \cup {<<now + ms, id>>}
      /\ unseen' = IF turn = "poll" THEN unseen \cup {id} ELSE {}
      /\ UNCHANGED <<now, turn, timePoint, deadline>>
  BY DEF AddTimer, turnVars
<1> HIDE DEF id
<1>5. TimersTypeOK'
  <2>1. msec' \in [TimerIds -> Delays \cup {0}] /\ nextTimeout' \in [TimerIds -> Keys \cup {0}]
    BY <1>1, <1>3, <1>4 DEF Inductive, TimersTypeOK
  <2>2. timers' \subseteq 1..lastTimerId' /\ unseen' \subseteq 1..lastTimerId'
    BY <1>1, <1>2, <1>4 DEF Inductive, TimersTypeOK
  <2>3. events' \subseteq Keys \X (1..lastTimerId')
    BY <1>1, <1>2, <1>3, <1>4 DEF Inductive, TimersTypeOK
  <2>4. lastTimerId' \in 0..MaxTimers
    BY <1>1, TimerAssumption DEF TimerIds
  <2> QED
    BY <1>4, <2>1, <2>2, <2>3, <2>4 DEF Inductive, TimersTypeOK
<1>6. \A other \in 1..lastTimerId :
        other # id /\ msec'[other] = msec[other] /\ nextTimeout'[other] = nextTimeout[other]
  BY <1>2, <1>4 DEF Inductive, TimersTypeOK
<1>7. msec'[id] = ms /\ nextTimeout'[id] = now + Interval(ms)
  BY <1>1, <1>4 DEF Inductive, TimersTypeOK
<1>8. \A event \in events : event[2] \in 1..lastTimerId
  BY DEF Inductive, TimersTypeOK
<1>9. QueuesAgree'
  <2>1. ASSUME NEW t \in timers' PROVE \E event \in events' : event[2] = t
    <3>1. CASE t \in timers
      BY <1>4, <3>1 DEF Inductive, QueuesAgree
    <3>2. CASE t = id
      <4>1. <<now + ms, id>> \in events' /\ <<now + ms, id>>[2] = id
        BY <1>4
      <4> QED
        BY <3>2, <4>1
    <3> QED
      BY <1>4, <2>1, <3>1, <3>2
  <2>2. ASSUME NEW event \in events'
        PROVE  msec'[event[2]] = 0
               \/ (event[2] \in timers' /\ event[1] = nextTimeout'[event[2]])
    <3>1. CASE event \in events
      BY <1>4, <1>6, <1>8, <3>1 DEF Inductive, QueuesAgree
    <3>2. CASE event = <<now + ms, id>>
      BY <1>4, <1>7, <3>2 DEF Interval
    <3> QED
      BY <1>4, <2>2, <3>1, <3>2
  <2> QED
    BY <2>1, <2>2 DEF QueuesAgree
<1>10. NoMissedTimer'
  BY <1>4, <1>6, <1>8 DEF Inductive, NoMissedTimer, Seen
<1> QED
  BY <1>5, <1>9, <1>10 DEF Inductive

(* RemoveTimer erases the only event of a timer with a delay.              *)
LEMMA RemoveStep ==
  ASSUME Inductive, NEW id \in TimerIds, RemoveTimer(id)
  PROVE  Inductive'
<1>1. /\ events' = events \ {<<nextTimeout[id], id>>} /\ timers' = timers \ {id}
      /\ UNCHANGED <<now, lastTimerId, msec, nextTimeout, turn, timePoint, deadline, unseen>>
  BY DEF RemoveTimer, turnVars
<1>2. TimersTypeOK'
  BY <1>1 DEF Inductive, TimersTypeOK
<1>3. ASSUME NEW t \in timers' PROVE \E event \in events' : event[2] = t
  <2>1. PICK event \in events : event[2] = t
    BY <1>1, <1>3 DEF Inductive, QueuesAgree
  <2>2. event # <<nextTimeout[id], id>>
    BY <1>1, <1>3, <2>1
  <2> QED
    BY <1>1, <2>1, <2>2
<1>4. ASSUME NEW event \in events'
      PROVE  msec'[event[2]] = 0
             \/ (event[2] \in timers' /\ event[1] = nextTimeout'[event[2]])
  <2>1. event \in events /\ event = <<event[1], event[2]>> /\ event # <<nextTimeout[id], id>>
    BY <1>1, <1>4 DEF Inductive, TimersTypeOK
  <2>2. msec[event[2]] = 0 \/ (event[2] \in timers /\ event[1] = nextTimeout[event[2]])
    BY <2>1 DEF Inductive, QueuesAgree
  <2> QED
    BY <1>1, <2>1, <2>2
<1>5. QueuesAgree'
  BY <1>3, <1>4 DEF QueuesAgree
<1>6. NoMissedTimer'
  BY <1>1 DEF Inductive, NoMissedTimer, Seen
<1> QED
  BY <1>2, <1>5, <1>6 DEF Inductive

(* The first timer runs: it is queued again under the time it then         *)
(* remembers, or leaves both containers.                                   *)
LEMMA RunStep ==
  ASSUME Inductive, RunTimer
  PROVE  Inductive'
<1> DEFINE id == First[2]
<1>1. timers # {} /\ turn = "pass"
  BY DEF RunTimer, FirstIsDue
<1>2. events # {}
  BY <1>1 DEF Inductive, QueuesAgree
<1>3. First \in events /\ First[1] \in Keys /\ id \in 1..lastTimerId
  BY <1>2, FirstOfEvents DEF Inductive
<1>4. id \in TimerIds
  BY <1>3, TimerAssumption DEF Inductive, TimersTypeOK, TimerIds
<1>5. Again(id) \in Keys
  BY <1>4, Numbers DEF Again, Inductive, TimersTypeOK
<1>6. First = <<First[1], id>> /\ \A event \in events : event = <<event[1], event[2]>>
  BY <1>3 DEF Inductive, TimersTypeOK
<1>7. msec[id] = 0 \/ (id \in timers /\ First[1] = nextTimeout[id])
  BY <1>3 DEF Inductive, QueuesAgree
<1>8. UNCHANGED <<now, lastTimerId, msec, turn, timePoint, deadline, unseen>>
  BY DEF RunTimer, turnVars
<1>9. NoMissedTimer'
  BY <1>1, <1>8 DEF NoMissedTimer
<1>10. CASE /\ nextTimeout' = NewTimeouts(id)
            /\ events' = (events \ {First}) \cup {<<Again(id), id>>}
            /\ UNCHANGED timers
  <2> HIDE DEF id
  <2>1. nextTimeout' = [nextTimeout EXCEPT ![id] = Again(id)]
    BY <1>10 DEF NewTimeouts
  <2>2. TimersTypeOK'
    <3>1. nextTimeout' \in [TimerIds -> Keys \cup {0}]
      BY <1>4, <1>5, <2>1 DEF Inductive, TimersTypeOK
    <3>2. events' \subseteq Keys \X (1..lastTimerId)
      BY <1>3, <1>5, <1>10 DEF Inductive, TimersTypeOK
    <3> QED
      BY <1>8, <1>10, <3>1, <3>2 DEF Inductive, TimersTypeOK
  <2>3. ASSUME NEW t \in timers' PROVE \E event \in events' : event[2] = t
    <3>1. PICK event \in events : event[2] = t
      BY <1>10, <2>3 DEF Inductive, QueuesAgree
    <3>2. CASE event = First
      <4>1. <<Again(id), id>> \in events' /\ <<Again(id), id>>[2] = id
        BY <1>10
      <4>2. t = id
        BY <1>6, <3>1, <3>2
      <4> QED
        BY <4>1, <4>2
    <3> QED
      BY <1>10, <3>1, <3>2
  <2>4. ASSUME NEW event \in events'
        PROVE  msec'[event[2]] = 0
               \/ (event[2] \in timers' /\ event[1] = nextTimeout'[event[2]])
    <3>1. nextTimeout'[id] = Again(id)
      BY <1>4, <2>1 DEF Inductive, TimersTypeOK
    <3>2. CASE event = <<Again(id), id>>
      BY <1>7, <1>8, <1>10, <3>1, <3>2
    <3>3. CASE event \in events \ {First}
      <4>1. msec[event[2]] = 0 \/ (event[2] \in timers /\ event[1] = nextTimeout[event[2]])
        BY <3>3 DEF Inductive, QueuesAgree
      <4>2. event[2] # id => nextTimeout'[event[2]] = nextTimeout[event[2]]
        <5>1. event[2] \in TimerIds
          BY <3>3, TimerAssumption DEF Inductive, TimersTypeOK, TimerIds
        <5> QED
          BY <2>1, <5>1 DEF Inductive, TimersTypeOK
      <4>3. event[2] = id => msec[id] = 0
        BY <1>6, <1>7, <3>3, <4>1
      <4> QED
        BY <1>8, <1>10, <4>1, <4>2, <4>3
    <3> QED
      BY <1>10, <2>4, <3>2, <3>3
  <2> QED
    BY <1>9, <2>2, <2>3, <2>4 DEF Inductive, QueuesAgree
<1>11. CASE /\ events' = events \ {First}
            /\ timers' = timers \ {id}
            /\ UNCHANGED nextTimeout
  <2> HIDE DEF id
  <2>1. TimersTypeOK'
    BY <1>8, <1>11 DEF Inductive, TimersTypeOK
  <2>2. ASSUME NEW t \in timers' PROVE \E event \in events' : event[2] = t
    <3>1. PICK event \in events : event[2] = t
      BY <1>11, <2>2 DEF Inductive, QueuesAgree
    <3> QED
      BY <1>6, <1>11, <2>2, <3>1
  <2>3. ASSUME NEW event \in events'
        PROVE  msec'[event[2]] = 0
               \/ (event[2] \in timers' /\ event[1] = nextTimeout'[event[2]])
    <3>1. msec[event[2]] = 0 \/ (event[2] \in timers /\ event[1] = nextTimeout[event[2]])
      BY <1>11, <2>3 DEF Inductive, QueuesAgree
    <3>2. event[2] = id => msec[id] = 0
      BY <1>6, <1>7, <1>11, <2>3, <3>1
    <3> QED
      BY <1>8, <1>11, <3>1, <3>2
  <2> QED
    BY <1>9, <2>1, <2>2, <2>3 DEF Inductive, QueuesAgree
<1> QED
  BY <1>10, <1>11 DEF RunTimer

(* The poll ends no later than the first timer is due.                     *)
LEMMA SleepStep ==
  ASSUME Inductive, Sleep
  PROVE  Inductive'
<1>1. /\ deadline' = Remaining /\ turn' = "poll"
      /\ UNCHANGED <<now, lastTimerId, msec, nextTimeout, timers, events, timePoint, unseen>>
  BY DEF Sleep, queueVars
<1>2. now \in Nat /\ Keys \subseteq Nat
  BY Numbers DEF Inductive, TimersTypeOK
<1>3. timers # {} => events # {}
  BY DEF Inductive, QueuesAgree
<1>4. timers # {} => First[1] \in Keys /\ \A event \in events : First[1] <= event[1]
  BY <1>3, FirstOfEvents DEF Inductive
<1>5. Remaining \in Keys \cup Times \cup {Never}
  BY <1>4 DEF Remaining, Inductive, TimersTypeOK
<1>6. TimersTypeOK'
  BY <1>1, <1>5 DEF Inductive, TimersTypeOK
<1>7. QueuesAgree'
  BY <1>1 DEF Inductive, QueuesAgree
<1>8. ASSUME NEW event \in events, event[2] \in timers
      PROVE  deadline' # Never /\ (deadline' <= event[1] \/ deadline' <= now)
  <2>1. deadline' = IF First[1] < now THEN now ELSE First[1]
    BY <1>1, <1>8 DEF Remaining
  <2> QED
    BY <1>2, <1>4, <1>8, <2>1, TimerAssumption
<1>9. NoMissedTimer'
  BY <1>1, <1>8 DEF NoMissedTimer, Seen
<1> QED
  BY <1>6, <1>7, <1>9 DEF Inductive

(* The rest of the loop's turn leaves the queue alone and does not begin a *)
(* poll.                                                                   *)
LEMMA TurnStep ==
  ASSUME Inductive, TriggersDone \/ TestTimers \/ LockQueue \/ PassDone \/ EndPoll
  PROVE  Inductive'
<1>1. turn' # "poll" /\ UNCHANGED <<now, lastTimerId, msec, nextTimeout, timers, events>>
  BY DEF TriggersDone, TestTimers, LockQueue, PassDone, EndPoll, queueVars
<1>2. TimersTypeOK'
  <2>1. 0 \in Times
    BY TimerAssumption DEF Times
  <2>2. timePoint' \in Times /\ deadline' \in {deadline, Never} /\ unseen' \subseteq unseen
        /\ turn' \in {"events", "test", "lock", "pass", "remaining", "poll"}
    BY <2>1 DEF Inductive, TimersTypeOK, TriggersDone, TestTimers, LockQueue, PassDone, EndPoll
  <2> QED
    BY <1>1, <2>2 DEF Inductive, TimersTypeOK
<1>3. QueuesAgree' /\ NoMissedTimer'
  BY <1>1 DEF Inductive, QueuesAgree, NoMissedTimer
<1> QED
  BY <1>2, <1>3 DEF Inductive

(* A deadline that has come stays so.                                      *)
LEMMA TickStep ==
  ASSUME Inductive, Tick
  PROVE  Inductive'
<1>1. /\ now \in Nat /\ now' = now + 1 /\ now < MaxTime
      /\ UNCHANGED <<lastTimerId, msec, nextTimeout, timers, events, turn, timePoint, deadline, unseen>>
  BY Numbers DEF Inductive, TimersTypeOK, Tick, queueVars, turnVars
<1>2. now' \in Times
  BY <1>1, TimerAssumption DEF Times
<1>3. TimersTypeOK'
  BY <1>1, <1>2 DEF Inductive, TimersTypeOK
<1>4. QueuesAgree'
  BY <1>1 DEF Inductive, QueuesAgree
<1>5. deadline # Never => deadline \in Nat
  BY Numbers DEF Inductive, TimersTypeOK
<1>6. NoMissedTimer'
  BY <1>1, <1>5 DEF Inductive, NoMissedTimer, Seen
<1> QED
  BY <1>3, <1>4, <1>6 DEF Inductive

(* Every step keeps the invariant.                                         *)
LEMMA InductiveStep == Inductive /\ [TimersNext]_timersVars => Inductive'
<1> SUFFICES ASSUME Inductive, [TimersNext]_timersVars PROVE Inductive'
  OBVIOUS
<1>1. CASE UNCHANGED timersVars
  BY <1>1 DEF Inductive, TimersTypeOK, QueuesAgree, NoMissedTimer, Seen, timersVars, queueVars, turnVars
<1>2. CASE TimersStep
  BY <1>2, TurnStep, RunStep, SleepStep DEF TimersStep
<1>3. CASE Use
  BY <1>3, AddStep, RemoveStep DEF Use
<1> QED
  BY <1>1, <1>2, <1>3, TurnStep, TickStep DEF TimersNext

(* The invariant holds in every reachable state.                           *)
THEOREM AlwaysInductive == TimersSpec => []Inductive
  BY InductiveInit, InductiveStep, PTL DEF TimersSpec

(* Type correctness of the queue and of the loop's turn.                   *)
THEOREM TimersTypeCorrect == TimersSpec => []TimersTypeOK
<1>1. Inductive => TimersTypeOK
  BY DEF Inductive
<1> QED
  BY AlwaysInductive, <1>1, PTL

(* timers_ and events_ agree, whoever adds, removes and repeats timers.    *)
THEOREM QueuesSafe == TimersSpec => []QueuesAgree
<1>1. Inductive => QueuesAgree
  BY DEF Inductive
<1> QED
  BY AlwaysInductive, <1>1, PTL

(* The loop never sleeps past a timer that it knew when the poll began.    *)
THEOREM SleepSafe == TimersSpec => []NoMissedTimer
<1>1. Inductive => NoMissedTimer
  BY DEF Inductive
<1> QED
  BY AlwaysInductive, <1>1, PTL
=============================================================================
