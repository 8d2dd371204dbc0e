\* TestTSS signing with three honest parties.
CONSTANTS
  All = All
  NoError = NoError
  N <- MCN
  FinalRound <- MCFinalRound
  Tampered <- NoneTampered
  Msg1Routing = "broadcast"
  Delivery = "fifo"
SPECIFICATION HostSpec
INVARIANT SignResultComplete
PROPERTY SignTerminates
\* sign returns and the test goes on; the model ends there.
CHECK_DEADLOCK FALSE
