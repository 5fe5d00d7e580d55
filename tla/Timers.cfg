CONSTANTS
  MaxTimers = 3
  Repeating = {2}
  Delays = {0, 1, 2}
  MaxTime = 3
  Never = Never
SPECIFICATION FairTimers
INVARIANTS QueuesAgree NoMissedTimer
PROPERTIES DueTimersRun
CHECK_DEADLOCK FALSE
