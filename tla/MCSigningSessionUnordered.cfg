\* Two honest parties; every message has its own updater goroutine, so
\* messages of one sender are stored in any order.
CONSTANTS
  All = All
  N <- MCN2
  FinalRound <- MCFinalRound6
  Tampered <- NoneTampered
  Msg1Routing = "broadcast"
  Delivery = "any"
SPECIFICATION Spec
INVARIANT LockStep
PROPERTY SessionEnds
\* Every party finishes and then takes no step.
CHECK_DEADLOCK FALSE
