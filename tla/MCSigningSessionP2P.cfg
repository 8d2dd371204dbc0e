\* Three honest parties, SignRound2Message1 routed point to point as
\* spec.md section 6 describes it.
CONSTANTS
  All = All
  N <- MCN
  FinalRound <- MCFinalRound
  Tampered <- NoneTampered
  Msg1Routing = "p2p"
  Delivery = "fifo"
SPECIFICATION Spec
PROPERTY SessionEnds
CHECK_DEADLOCK FALSE
