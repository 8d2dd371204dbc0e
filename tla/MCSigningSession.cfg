\* Three honest parties; SignRound2Message1 delivered as the round-2 code
\* expects (a broadcast seen by every party).
CONSTANTS
  All = All
  N <- MCN
  FinalRound <- MCFinalRound
  Tampered <- NoneTampered
  Msg1Routing = "broadcast"
  Delivery = "fifo"
SPECIFICATION Spec
INVARIANT TypeOK
INVARIANT LockStep
INVARIANT RoundMessagesCounted
PROPERTY SessionEnds
\* Every party finishes and then takes no step.
CHECK_DEADLOCK FALSE
