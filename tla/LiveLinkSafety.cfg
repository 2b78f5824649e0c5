\* Two RPC connections and two socket handles (the system may reuse one), with
\* the code's own retry limit.  The daemon really stops, so deadlock is allowed.
SPECIFICATION Spec
CONSTANTS
  NoSock = NoSock
  r1 = r1
  r2 = r2
  h1 = h1
  h2 = h2
  Rpc <- MCRpc
  Handles <- MCHandles
  MaxRetries = 3
SYMMETRY Symmetry
CHECK_DEADLOCK FALSE
INVARIANTS TypeOK LinkOwnership NoPhantomReady GivesUpOnlyAfterAllRetries
