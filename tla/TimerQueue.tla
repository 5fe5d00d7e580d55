----------------------------- MODULE TimerQueue -----------------------------
(***************************************************************************)
(* The event loop's timers.  In every turn (TaskScheduler::Start) the loop *)
(* runs the trigger events, then the timers that are due, works out how    *)
(* long it may sleep and polls.  Any thread adds and removes timers, as    *)
(* the disconnect callback does when the ring of trigger events is full    *)
(* (TcpServer.cpp 24-27); the loop's own callbacks are such users as well. *)
(***************************************************************************)
EXTENDS Naturals

CONSTANTS
  MaxTimers,   \* bound: how many timers are ever added
  Repeating,   \* the timers whose callback always asks for another run
  Delays,      \* the milliseconds that callers ask for
  MaxTime,     \* bound: the clock stops there
  Never        \* the poll has no timeout

TimerIds == 1..MaxTimers
Times == 0..MaxTime
Keys == {time + ms : time \in Times, ms \in Delays \cup {1}}

ASSUME TimerAssumption ==
  /\ MaxTimers \in Nat /\ MaxTime \in Nat
  /\ Repeating \subseteq TimerIds
  /\ Delays \subseteq Nat
  /\ Never \notin Nat

VARIABLES
  now,          \* GetTimeNow
  lastTimerId,  \* last_timer_id_
  msec,         \* what each timer was added with
  nextTimeout,  \* Timer::next_timeout_
  timers,       \* the timers in timers_
  events,       \* events_: pairs of a time and a timer, in that order
  turn,         \* where the loop is in its turn
  timePoint,    \* when HandleTimerEvent began its pass
  deadline,     \* when the poll ends by itself
  unseen        \* the timers added since the poll began

queueVars == <<lastTimerId, msec, nextTimeout, timers, events>>
turnVars == <<turn, timePoint, deadline>>
timersVars == <<now, queueVars, turnVars, unseen>>

TimersTypeOK ==
  /\ now \in Times /\ timePoint \in Times
  /\ lastTimerId \in 0..MaxTimers
  /\ msec \in [TimerIds -> Delays \cup {0}]
  /\ nextTimeout \in [TimerIds -> Keys \cup {0}]
  /\ timers \subseteq 1..lastTimerId
  /\ events \subseteq Keys \X (1..lastTimerId)
  /\ turn \in {"events", "test", "lock", "pass", "remaining", "poll"}
  /\ deadline \in Keys \cup Times \cup {Never}
  /\ unseen \subseteq 1..lastTimerId

TimersInit ==
  /\ now = 0
  /\ lastTimerId = 0
  /\ msec = [id \in TimerIds |-> 0] /\ nextTimeout = [id \in TimerIds |-> 0]
  /\ timers = {} /\ events = {}
  /\ turn = "events" /\ timePoint = 0 /\ deadline = Never
  /\ unseen = {}

-----------------------------------------------------------------------------
(* mutex_ is the loop's while it runs timers, the callbacks included: a    *)
(* callback that added or removed one would wait for itself.  Every other  *)
(* use is one step.                                                        *)
QueueFree == turn # "pass"

(* The constructor of Timer leaves no interval of nothing.                 *)
AsAsked(ms) == ms                       \* a slip
Interval(ms) == IF ms = 0 THEN 1 ELSE ms

(* AddTimer: the queue is sorted by what was asked for, the timer itself   *)
(* remembers its interval.  Nobody wakes the loop.                         *)
AddTimer(ms) ==
  LET id == lastTimerId + 1 IN
  /\ QueueFree /\ id <= MaxTimers
  /\ lastTimerId' = id
  /\ msec' = [msec EXCEPT ![id] = ms]
  /\ nextTimeout' = [nextTimeout EXCEPT ![id] = now + Interval(ms)]
  /\ timers' = timers \cup {id}
  /\ events' = events \cup {<<now + ms, id>>}
  /\ unseen' = IF turn = "poll" THEN unseen \cup {id} ELSE {}
  /\ UNCHANGED <<now, turnVars>>

RemoveTimer(id) ==
  /\ QueueFree /\ id \in timers
  /\ events' = events \ {<<nextTimeout[id], id>>}
  /\ timers' = timers \ {id}
  /\ UNCHANGED <<now, lastTimerId, msec, nextTimeout, turnVars, unseen>>

-----------------------------------------------------------------------------
(* The callbacks of the trigger events return.                             *)
TriggersDone ==
  /\ turn = "events"
  /\ turn' = "test"
  /\ UNCHANGED <<now, queueVars, timePoint, deadline, unseen>>

(* HandleTimerEvent.  That there are timers is first read without the      *)
(* mutex.                                                                  *)
TestTimers ==
  /\ turn = "test"
  /\ turn' = IF timers = {} THEN "remaining" ELSE "lock"
  /\ UNCHANGED <<now, queueVars, timePoint, deadline, unseen>>

LockQueue ==
  /\ turn = "lock"
  /\ turn' = "pass" /\ timePoint' = now
  /\ UNCHANGED <<now, queueVars, deadline, unseen>>

(* events_.begin(), in the order of a map.                                 *)
Before(a, b) == a[1] < b[1] \/ (a[1] = b[1] /\ a[2] < b[2])
First == CHOOSE event \in events : \A other \in events \ {event} : Before(event, other)
FirstIsDue == timers # {} /\ First[1] <= timePoint

(* The first timer's callback runs and tells whether to repeat.            *)
Again(id) == timePoint + Interval(msec[id])
OldTimeouts(id) == nextTimeout          \* a slip: the timer does not learn its new time
NewTimeouts(id) == [nextTimeout EXCEPT ![id] = Again(id)]

RunTimer ==
  LET id == First[2] IN
  /\ turn = "pass" /\ FirstIsDue
  /\ \/ /\ nextTimeout' = NewTimeouts(id)
        /\ events' = (events \ {First}) \cup {<<Again(id), id>>}
        /\ UNCHANGED timers
     \/ /\ id \notin Repeating
        /\ events' = events \ {First}
        /\ timers' = timers \ {id}
        /\ UNCHANGED nextTimeout
  /\ UNCHANGED <<now, lastTimerId, msec, turnVars, unseen>>

PassDone ==
  /\ turn = "pass" /\ ~FirstIsDue
  /\ turn' = "remaining" /\ timePoint' = 0
  /\ UNCHANGED <<now, queueVars, deadline, unseen>>

(* GetTimeRemaining, and the poll begins.                                  *)
Last == CHOOSE event \in events : \A other \in events \ {event} : Before(other, event)
Longest == IF timers = {} THEN Never ELSE Last[1]   \* a slip: the last timer
Remaining ==
  IF timers = {} THEN Never ELSE IF First[1] < now THEN now ELSE First[1]

Sleep ==
  /\ turn = "remaining"
  /\ turn' = "poll"
  /\ deadline' = Remaining
  /\ UNCHANGED <<now, queueVars, timePoint, unseen>>

(* The poll ends for its timeout, or for the pipe or a socket; the next    *)
(* turn begins with the trigger events.                                    *)
EndPoll ==
  /\ turn = "poll"
  /\ turn' = "events" /\ deadline' = Never /\ unseen' = {}
  /\ UNCHANGED <<now, queueVars, timePoint>>

TimedOut == deadline # Never /\ deadline <= now /\ EndPoll

Tick ==
  /\ now < MaxTime
  /\ now' = now + 1
  /\ UNCHANGED <<queueVars, turnVars, unseen>>

-----------------------------------------------------------------------------
TimersStep == TriggersDone \/ TestTimers \/ LockQueue \/ RunTimer \/ PassDone \/ Sleep
Use == (\E ms \in Delays : AddTimer(ms)) \/ (\E id \in TimerIds : RemoveTimer(id))

TimersNext == TimersStep \/ EndPoll \/ Use \/ Tick

TimersSpec == TimersInit /\ [][TimersNext]_timersVars

(* The loop's thread runs and epoll_wait keeps its timeout; nobody has to  *)
(* post, to send or to add.                                                *)
FairTimers == TimersSpec /\ WF_timersVars(TimersStep) /\ WF_timersVars(TimedOut)

-----------------------------------------------------------------------------
(* timers_ and events_ agree, so that events_.begin() exists whenever      *)
(* timers_ is not empty and RemoveTimer finds the event it erases.  Only a *)
(* timer of no delay is queued under a time it does not know until it has  *)
(* run (Timer.cpp 76-78), and only such a timer outlives its removal.      *)
QueuesAgree ==
  /\ \A id \in timers : \E event \in events : event[2] = id
  /\ \A event \in events :
       LET id == event[2]
       IN  msec[id] = 0 \/ (id \in timers /\ event[1] = nextTimeout[id])

(* The loop never sleeps past a timer, except one that another thread has  *)
(* added since the poll began: AddTimer does not write to the wake-up pipe *)
(* (Timer.cpp 68-80).                                                      *)
Seen(event) == event[2] \in timers \ unseen
NoMissedTimer ==
  turn = "poll" =>
    \A event \in events :
      Seen(event) => deadline # Never /\ (deadline <= event[1] \/ deadline <= now)

(* A timer that is due runs: no timer that repeats keeps the others, or    *)
(* the loop, waiting.                                                      *)
SomeDue == \E event \in events : Seen(event) /\ event[1] <= now
DueTimersRun == SomeDue ~> ~SomeDue
=============================================================================
