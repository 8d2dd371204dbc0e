\* Arrays of up to two proofs of two parts, nil entries included.
CONSTANTS
  Parts = 2
  MaxLen = 2
  Values <- NonZeroValues
  NilProof = NilProof
  None = None
  ImproperInputLength = ImproperInputLength
SPECIFICATION Spec
INVARIANT RoundTrip
\* One array is sent and decoded, then the transfer is over.
CHECK_DEADLOCK FALSE
