----------------------------- MODULE MCDecProof -----------------------------
EXTENDS DecProof

\* q = 3 has bit length 2: 2^ell = 4, 2^{ell+eps} = 64.
MCEll == 2
MCQ == 3
\* Paillier modulus 3 * 5.
MCN0 == 15
\* Ring-Pedersen over 5 * 7 (safe primes): t = 4 generates the quadratic
\* residues (order 6) and s = t^5.
MCNHat == 35
MCRpT == 4
MCRpS == 9
\* Plaintexts below q, equal to q (spec 8.4 and the Dec proof of
\* share_protocol_test.go lines 151-163: y = q, x = 0) and above q;
\* randomness in Z*_N0.
MCYs == {1, 3, 5}
MCRhos == {2, 7}
\* alpha over all of [0, 2^{ell+eps}), so gamma = alpha mod q takes every
\* residue; the other samples at both ends of their range and inside it.
MCAlphas == 0 .. 63
MCMus == {0, 50, 139}
MCNus == {1, 1000, 2239}
MCRs == {4, 13}
\* For the range question: alpha and nu drawn from the low part of their
\* ranges, so that every honest proof stays within spec 4.4's ranges
\* (z1 = alpha + e*y <= 48 + 3*5 = 63 < 64, z2 = nu + e*mu <= 1823 +
\* 3*139 = 2240); at these toy moduli e*y and e*mu are not negligible
\* against the range, as they are at real sizes.
MCAlphasLow == 0 .. 48
MCNusLow == {1, 1000, 1823}
\* Substitute z1 values up to twice the bound 2^{ell+eps}.
MCForgedZ1s == 0 .. 128
=============================================================================
