SPECIFICATION PagesSpec
CONSTANTS
  Displays <- c_Displays
  Primary <- c_Primary
  Points <- c_Points
  Agents = {claude, codex}
  NoAgent = none
  MaxPending = 1
  Bands = {b1, b2}
  OtherDevices = {headset}
  Nowhere = nowhere
  Saves = {s1}
  MaxSaves = 1
  MaxScans = 1
  MaxPicks = 2
  MaxCrashes = 1
  MaxOpens = 2
  MaxChanges = 1
 
 
INVARIANT SuccessIsEarned
 
CHECK_DEADLOCK FALSE
