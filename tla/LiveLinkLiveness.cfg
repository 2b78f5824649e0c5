\* One RPC connection, one socket handle and the code's retry limit; weak fairness
\* of the live thread and of the RPC thread, none of the band.
SPECIFICATION FairSpec
CONSTANTS
  NoSock = NoSock
  r1 = r1
  r2 = r2
  h1 = h1
  h2 = h2
  Rpc = {r1}
  Handles = {h1}
  MaxRetries = 3
CHECK_DEADLOCK FALSE
PROPERTIES DisconnectReleases ConnectResolves
