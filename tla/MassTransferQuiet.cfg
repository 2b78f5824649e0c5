\* The sequence space scaled from 256 to 10 and the window from 32 to 3, so that
\* numbers wrap within one transfer; as much other traffic as Quiet allows.
SPECIFICATION Spec
CONSTANTS
  Half = 5
  Window = 3
  Total = 10
  AckQueue = 10
  MaxForeign = 2
CHECK_DEADLOCK FALSE
INVARIANTS TypeOK AckedIsReceived NoLostAck
PROPERTY SlidingWindowSpec
