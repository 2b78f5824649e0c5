\* The user's requests, two closures, two attempts per connectOnce, two faults: a
\* crash and another failure while recovering.  The application ends.
SPECIFICATION Spec
CONSTANTS
  c1 = c1
  c2 = c2
  MaxDaemons = 4
  MaxSockets = 3
  Closures <- MCClosures
  Users = {"ui"}
  Retries = 2
  MaxFaults = 2
SYMMETRY Symmetry
CHECK_DEADLOCK FALSE
INVARIANTS TypeOK NeverAbandoned OldIsDegraded
