SPECIFICATION DesktopSpec
CONSTANTS
  Hooks = {overview}
  Steps = {setup}
  MaxMoves = 2
  MaxClicks = 2
  MaxPipe = 2
  Messages = {m1, m2, m3}
  MaxLate = 1
  Chunks = 2
  MaxTries = 2
  MaxQuits = 2
  HookEvents = {"PreToolUse", "Stop"}
  Theirs = {"x", "y"}
INVARIANT FetchesAreAnswered
INVARIANT VerifiedIsRun
PROPERTY StatusHeals
PROPERTY UpdatesEnd
 
CHECK_DEADLOCK FALSE
