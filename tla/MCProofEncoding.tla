-------------------------- MODULE MCProofEncoding --------------------------
EXTENDS ProofEncoding

\* Components as the verifier accepts them (Verify rejects W = 0 and
\* A = 0): one-byte and two-byte magnitudes.
NonZeroValues == {1, 255, 256}
=============================================================================
