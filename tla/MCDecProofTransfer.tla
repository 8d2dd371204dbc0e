------------------------- MODULE MCDecProofTransfer -------------------------
EXTENDS DecProofTransfer, MCDecProof

\* r = GetRandomPositiveInt(N0) is uniform in [0, N0) (spec 5,
\* RandomSource.SampleUniform), so r = 0 gives A = W = 0.
MCRsWithZero == {0, 4, 13}
=============================================================================
