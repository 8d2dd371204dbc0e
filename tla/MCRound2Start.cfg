\* round2.Start of one party of a 3-party session; every subset of the two
\* peers may have sent a rejected Enc proof (chosen in Init).
CONSTANTS
  p1 = p1
  p2 = p2
  All = All
  Peers <- MCPeers
SPECIFICATION Spec
INVARIANT TypeOK
PROPERTY Refinement
PROPERTY StartReturns
\* Start returns and the module ends: the caller continues in the session.
CHECK_DEADLOCK FALSE
