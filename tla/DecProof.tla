------------------------------ MODULE DecProof ------------------------------
(***************************************************************************)
(* The Dec zero-knowledge proof of src/crypto/zkproofs/dec_proof.go       *)
(* (CGG21 Figure 30) over toy moduli: the prover knows y, rho with        *)
(* C = Enc_N0(y, rho) and x = y mod q; NewDecProof commits with the       *)
(* verifier's Ring-Pedersen parameters (NHat, s, t), derives the          *)
(* Fiat-Shamir challenge and answers (z1, z2, w); Verify recomputes the   *)
(* challenge and checks the three equations.  The arithmetic is exact     *)
(* (modular exponentiation by squaring); the random samples are drawn     *)
(* from small sets inside the code's ranges; SHA512_256i is replaced by a *)
(* deterministic function of the same ordered list of integers.           *)
(***************************************************************************)
EXTENDS Integers, SequencesExt

CONSTANTS Ell,            \* GetEll: bit length of the curve order
          Q,              \* the curve order q
          N0,             \* the prover's Paillier modulus
          NHat, RpS, RpT, \* the verifier's Ring-Pedersen (N, S, T)
          HashMod,        \* the challenge space of the toy hash
          Ys, Rhos,       \* witnesses: plaintexts and Paillier randomness
          Alphas, Mus, Nus, Rs,  \* samples of GetRandomPositiveInt
          ForgedZ1s,      \* z1 values a dishonest prover may substitute
          None

N0Square == N0 * N0

\* Lines 213-227 of mulstar_proof_test.go, NewEll: epsilon = 2 ell.
TwoPowEll == 2 ^ Ell

\* NewEll: 2^{ell + epsilon}.
TwoPowEllPlusEpsilon == 2 ^ (Ell + 2 * Ell)

ASSUME /\ Alphas \subseteq 0 .. TwoPowEllPlusEpsilon - 1
       /\ Mus \subseteq 0 .. TwoPowEll * NHat - 1
       /\ Nus \subseteq 0 .. TwoPowEllPlusEpsilon * NHat - 1
       /\ Rs \subseteq 0 .. N0 - 1

\* big.Int Exp(b, e, m) for e >= 0, by squaring.
RECURSIVE PowMod(_, _, _)
PowMod(b, e, m) ==
  IF e = 0 THEN 1 % m
  ELSE LET h == PowMod(b, e \div 2, m)
       IN IF e % 2 = 0 THEN (h * h) % m ELSE (((h * h) % m) * (b % m)) % m

\* Lines 290-297 of mulstar_proof_test.go, RingPedersenParams.Commit.
Commit(x, y) == (PowMod(RpS, x, NHat) * PowMod(RpT, y, NHat)) % NHat

\* Lines 299-303, APlusBC.
APlusBC(a, b, c) == a + b * c

\* Lines 305-310, ATimesBToTheCModN.
ATimesBToTheCModN(a, b, c, n) == (a * PowMod(b, c, n)) % n

\* Lines 266-271, IsZero.
IsZero(v) == v = 0

\* paillier.PublicKey.EncryptWithRandomnessNoErrChk (spec 4.2):
\* (1 + N0)^m * r^N0 mod N0^2.
Encrypt(m, r) == (PowMod(1 + N0, m, N0Square) * PowMod(r, N0, N0Square)) % N0Square

\* The SHA512_256i digest of an ordered list of integers, as a
\* deterministic function into the challenge space.
Hash(msg) == FoldLeft(LAMBDA acc, v : (acc * 31 + v) % HashMod, 7, msg)

\* Lines 159-163, GetChallenge: statement, Ring-Pedersen, commitments.
GetChallenge(stmt, proof) ==
  Hash(<<Ell, Q, N0, stmt.C, stmt.X, NHat, RpS, RpT,
         proof.S, proof.T, proof.A, proof.Gamma>>)

\* Mutant of NewDecProof: z1 answered with x = y mod q instead of y.
NewDecProofZ1FromX(y, rho, alpha, mu, nu, r, stmt) ==
  LET com == [S |-> Commit(y, mu), T |-> Commit(alpha, nu),
              A |-> Encrypt(alpha, r), Gamma |-> alpha % Q]
      e == GetChallenge(stmt, com)
  IN com @@
     [Z1 |-> APlusBC(alpha, e, stmt.X), Z2 |-> APlusBC(nu, e, mu),
      W |-> ATimesBToTheCModN(r, rho, e, N0)]

\* Lines 64-113, NewDecProof with the samples alpha, mu, nu, r.
NewDecProof(y, rho, alpha, mu, nu, r, stmt) ==
  LET com == [S |-> Commit(y, mu), T |-> Commit(alpha, nu),
              A |-> Encrypt(alpha, r), Gamma |-> alpha % Q]
      e == GetChallenge(stmt, com)
  IN com @@
     [Z1 |-> APlusBC(alpha, e, y), Z2 |-> APlusBC(nu, e, mu),
      W |-> ATimesBToTheCModN(r, rho, e, N0)]

\* Mutant of Verify: the Ring-Pedersen equation is not checked.
VerifyNoCommitmentCheck(proof, stmt) ==
  LET e == GetChallenge(stmt, proof)
  IN /\ N0 > 0
     /\ ~IsZero(proof.W) /\ ~IsZero(proof.A)
     /\ Encrypt(proof.Z1, proof.W)
          = ATimesBToTheCModN(proof.A, stmt.C, e, N0Square)
     /\ proof.Z1 % Q = APlusBC(proof.Gamma, e, stmt.X) % Q

\* Lines 116-157, Verify.
Verify(proof, stmt) ==
  LET e == GetChallenge(stmt, proof)
  IN /\ N0 > 0
     /\ ~IsZero(proof.W) /\ ~IsZero(proof.A)
     /\ Encrypt(proof.Z1, proof.W)
          = ATimesBToTheCModN(proof.A, stmt.C, e, N0Square)
     /\ proof.Z1 % Q = APlusBC(proof.Gamma, e, stmt.X) % Q
     /\ Commit(proof.Z1, proof.Z2)
          = ATimesBToTheCModN(proof.T, proof.S, e, NHat)

-----------------------------------------------------------------------------
VARIABLES stmt,     \* the statement (C, x) the prover claims
          proof,    \* the proof the verifier receives
          origin,   \* "honest", or the component perturbed by -1
          verdict   \* None, or what Verify returned

vars == <<stmt, proof, origin, verdict>>

Components == {"S", "T", "A", "Gamma", "Z1", "Z2", "W"}

Init ==
  /\ stmt = None
  /\ proof = None
  /\ origin = None
  /\ verdict = None

\* Lines 58-61, DecWitness: the secret input (y, rho).
DecWitnesses == [Y : Ys, Rho : Rhos]

\* Lines 50-56, DecStatement of a witness (lines 17-21): Q, Ell and N0 are
\* the constants; C = (1 + N0)^y rho^N0 mod N0^2 and x = y mod q.
StatementOf(wit) == [C |-> Encrypt(wit.Y, wit.Rho), X |-> wit.Y % Q]

\* A prover with a witness of the statement runs NewDecProof.
Prove ==
  /\ proof = None
  /\ \E wit \in DecWitnesses, alpha \in Alphas, mu \in Mus, nu \in Nus,
        r \in Rs :
       LET st == StatementOf(wit)
       IN /\ stmt' = st
          /\ proof' = NewDecProof(wit.Y, wit.Rho, alpha, mu, nu, r, st)
  /\ origin' = "honest"
  /\ UNCHANGED verdict

\* Spec 8.2: one component of an honest proof decreased by one on the way
\* (a positive one: Exp of a negative exponent is a modular inverse).
Perturb ==
  /\ origin = "honest"
  /\ verdict = None
  /\ \E k \in Components :
       /\ proof[k] >= 1
       /\ proof' = [proof EXCEPT ![k] = @ - 1]
       /\ origin' = k
  /\ UNCHANGED <<stmt, verdict>>

\* The verifier runs Verify.
Check ==
  /\ proof # None
  /\ verdict = None
  /\ verdict' = Verify(proof, stmt)
  /\ UNCHANGED <<stmt, proof, origin>>

Next == Prove \/ Perturb \/ Check

Spec == Init /\ [][Next]_vars /\ WF_vars(Next)

\* A dishonest prover replaces z1 of an honest proof by another value.
Forge ==
  /\ origin = "honest"
  /\ verdict = None
  /\ \E z \in ForgedZ1s :
       /\ proof' = [proof EXCEPT !.Z1 = z]
       /\ origin' = "forged"
  /\ UNCHANGED <<stmt, verdict>>

ForgerySpec == Init /\ [][Next \/ Forge]_vars

-----------------------------------------------------------------------------
\* Spec 8.2, soundness surface: a proof with a single response component
\* (z1, z2 or w) decreased by one fails Verify.
PerturbedResponseRejected ==
  (verdict # None /\ origin \in {"Z1", "Z2", "W"}) => verdict = FALSE

\* Spec 4.4: verification is total and rejects a proof whose components
\* are outside their claimed range: z1 in [-2^{ell+eps}, 2^{ell+eps}] and
\* z2 in [-2^{ell+eps} NHat, 2^{ell+eps} NHat] (the DecProof field
\* comments claim the same ranges).
VerifiedProofInRange ==
  verdict = TRUE =>
    /\ -TwoPowEllPlusEpsilon <= proof.Z1
    /\ proof.Z1 <= TwoPowEllPlusEpsilon
    /\ -TwoPowEllPlusEpsilon * NHat <= proof.Z2
    /\ proof.Z2 <= TwoPowEllPlusEpsilon * NHat
=============================================================================
