\* The poll and quitting, one fault.  The application ends.
SPECIFICATION FairSpec
CONSTANTS
  MaxDaemons = 4
  MaxSockets = 3
  Closures = {"c1"}
  Users = {"page", "quit"}
  Retries = 1
  MaxFaults = 1
CHECK_DEADLOCK FALSE
PROPERTIES Reconnects CallsSettle
