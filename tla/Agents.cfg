SPECIFICATION AgentsSpec
INVARIANT ListIsSound
 
INVARIANT LogIsFollowed
PROPERTY TailersCatchUp
CHECK_DEADLOCK FALSE
CONSTANTS
  Transcripts = {"a", "b"}
  DesktopId = "claude-desktop"
  Window = 7
  MaxEvents = 4
  Logs = {"l"}
  DefaultId = "codex-active"
  MaxLines = 4
  Convs = {"c1", "c2"}
  NoConv = "-"
  ActiveEvery = 2
  AbsentEvery = 3
  GraceMin = 1
  GraceMax = 3
  Margin = 1
