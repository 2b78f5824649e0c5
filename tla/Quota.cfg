SPECIFICATION Spec
INVARIANT QuotaIsCurrent
INVARIANT LogsAddUp
 
PROPERTY QuotaHeals
CHECK_DEADLOCK FALSE
CONSTANTS
  Interval = 2
  StaleAfter = 4
  AuthWait = 1
  BackoffMax = 6
  CacheTtl = 2
  Waits = {3}
  WindowEnds = {0, 2}
  MaxTokens = 3
  Messages = {m1, m2}
  LogFiles = {f1, f2}
  Hour = 2
  Block = 4
  TokenTtl = 1
  MaxNow = 4
  MaxIo = 2
  Pollers = {quota, sessions}
  MaxStarts = 3
  Minute = 3
  Day = 4
  MaxAge = 2
  MaxClock = 40
