\* An honest Dec proof with r sampled from [0, N0), sent in a proof array.
CONSTANTS
  None = None
  NilProof = NilProof
  ImproperInputLength = ImproperInputLength
  Ell <- MCEll
  Q <- MCQ
  N0 <- MCN0
  NHat <- MCNHat
  RpS <- MCRpS
  RpT <- MCRpT
  HashMod = 4
  Ys <- MCYs
  Rhos <- MCRhos
  Alphas <- MCAlphas
  Mus <- MCMus
  Nus <- MCNus
  Rs <- MCRsWithZero
  ForgedZ1s <- MCForgedZ1s
SPECIFICATION TSpec
INVARIANT HonestUnitRandomnessVerifies
\* One array is sent, decoded and checked, then the exchange is over.
CHECK_DEADLOCK FALSE
