\* Three parties, party 2's round-1 Enc proofs are invalid.
CONSTANTS
  All = All
  N <- MCN
  FinalRound <- MCFinalRound
  Tampered <- OneTampered
  Msg1Routing = "broadcast"
  Delivery = "fifo"
SPECIFICATION Spec
PROPERTY SessionEnds
\* The honest parties abort and the tampered one waits for round-2
\* messages that never come: the session stops.
CHECK_DEADLOCK FALSE
