\* A dishonest prover substitutes z1.
CONSTANTS
  None = None
  Ell <- MCEll
  Q <- MCQ
  N0 <- MCN0
  NHat <- MCNHat
  RpS <- MCRpS
  RpT <- MCRpT
  HashMod = 4
  Ys <- MCYs
  Rhos <- MCRhos
  Alphas <- MCAlphasLow
  Mus <- MCMus
  Nus <- MCNusLow
  Rs <- MCRs
  ForgedZ1s <- MCForgedZ1s
SPECIFICATION ForgerySpec
INVARIANT VerifiedProofInRange
\* One proof is made and checked, then the exchange is over.
CHECK_DEADLOCK FALSE
