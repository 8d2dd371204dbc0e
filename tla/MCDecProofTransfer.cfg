\* An honest or perturbed Dec proof sent in a proof array and verified.
CONSTANTS
  None = None
  NilProof = NilProof
  ImproperInputLength = ImproperInputLength
  Ell <- MCEll
  Q <- MCQ
  N0 <- MCN0
  NHat <- MCNHat
  RpS <- MCRpS
  RpT <- MCRpT
  HashMod = 4
  Ys <- MCYs
  Rhos <- MCRhos
  Alphas <- MCAlphas
  Mus <- MCMus
  Nus <- MCNus
  Rs <- MCRsWithZero
  ForgedZ1s <- MCForgedZ1s
SPECIFICATION TSpec
INVARIANT DecodedEntryIsSent
INVARIANT DeliveredHonestProofVerifies
INVARIANT PerturbedResponseRejected
\* One array is sent, decoded and checked, then the exchange is over.
CHECK_DEADLOCK FALSE
