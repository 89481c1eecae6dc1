CONSTANTS
  None = None
  Absent = Absent
  Timeouts = {0, 1, 2, 3, 4}
  DefaultTimeout = 2
  MaxDelay = 3
  Res = 2
  Early = 2
  MaxTime = 10
SPECIFICATION FairSpec
INVARIANT ArmedWhileWaiting
PROPERTIES ImplementsDeadline BoundedCallAnswers
CHECK_DEADLOCK FALSE
