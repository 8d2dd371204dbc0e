--------------------------- MODULE DecProofTransfer ---------------------------
(***************************************************************************)
(* A Dec proof on its way from prover to verifier: the prover makes the   *)
(* proof (DecProof), puts it into the peer-indexed proof array with its   *)
(* own entry absent (spec 4.4), serializes the array with               *)
(* ProofArrayToBytes over DecProof.Bytes (ProofEncoding), the verifier    *)
(* decodes it with ProofArrayFromBytes and DecProof.ProofFromBytes and    *)
(* runs Verify on its entry.  Two parties: the prover and one verifier.   *)
(***************************************************************************)
EXTENDS DecProof

CONSTANTS NilProof,            \* a nil entry of a proof array
          ImproperInputLength  \* the error of ProofArrayFromBytes

VARIABLES self,  \* the prover's index in the array
          wire,  \* the byte slices sent, or None
          rcvd   \* what ProofArrayFromBytes returned, or None

tvars == <<vars, self, wire, rcvd>>

Indices == {1, 2}

\* dec_proof.go lines 34-36.
DecProofParts == 7

\* Lines 179-181, DecProof.Parts: the constant, without dereferencing the
\* receiver, so ProofArrayToBytes may call it on a nil proofs[0] and
\* ProofArrayFromBytes on the zero value of P (a nil *DecProof).
Parts == DecProofParts

Wire == INSTANCE ProofEncoding
          WITH Parts <- Parts, Values <- Nat, MaxLen <- 2,
               proofs <- <<>>, decoded <- None

\* Mutant of ToParts: Z2 written before Z1.
ToPartsSwapZ(pf) == <<pf.S, pf.T, pf.A, pf.Gamma, pf.Z2, pf.Z1, pf.W>>

\* Lines 38-48 and 183-193: the fields of DecProof in the order Bytes
\* writes them (each through big.Int.Bytes, Wire!Bytes).
ToParts(pf) == <<pf.S, pf.T, pf.A, pf.Gamma, pf.Z1, pf.Z2, pf.W>>

\* Lines 195-208, ProofFromBytes: the fields read back in the same order.
FromParts(ps) ==
  [S |-> ps[1], T |-> ps[2], A |-> ps[3], Gamma |-> ps[4], Z1 |-> ps[5],
   Z2 |-> ps[6], W |-> ps[7]]

\* The array the prover sends: its own entry nil, the verifier's entry the
\* proof made with the verifier's Ring-Pedersen parameters.
SentArray == [i \in Indices |-> IF i = self THEN NilProof ELSE ToParts(proof)]

\* Lines 116-119 and 174-176: Verify of a nil proof is false.
VerifyEntry(e) == e # NilProof /\ Verify(FromParts(e), stmt)

TInit ==
  /\ Init
  /\ self \in Indices
  /\ wire = None
  /\ rcvd = None

TProve == Prove /\ UNCHANGED <<self, wire, rcvd>>

\* The proof is perturbed before it is serialized.
TPerturb == wire = None /\ Perturb /\ UNCHANGED <<self, wire, rcvd>>

\* The prover serializes the array (ProofArrayToBytes).
Send ==
  /\ proof # None
  /\ wire = None
  /\ wire' = Wire!ProofArrayToBytes(SentArray)
  /\ UNCHANGED <<vars, self, rcvd>>

\* The verifier decodes it (ProofArrayFromBytes).
Deliver ==
  /\ wire # None
  /\ rcvd = None
  /\ rcvd' = Wire!ProofArrayFromBytes(wire)
  /\ UNCHANGED <<vars, self, wire>>

\* Verifier v runs Verify on its entry; a decoding error rejects.
CheckEntry(v) ==
  /\ v # self
  /\ rcvd # None
  /\ verdict = None
  /\ verdict' = (rcvd # ImproperInputLength /\ VerifyEntry(rcvd[v]))
  /\ UNCHANGED <<stmt, proof, origin, self, wire, rcvd>>

TNext == TProve \/ TPerturb \/ Send \/ Deliver \/ \E v \in Indices : CheckEntry(v)

TSpec == TInit /\ [][TNext]_tvars /\ WF_tvars(TNext)

-----------------------------------------------------------------------------
\* The verifier's entry as it arrived.
Received == IF rcvd \in {None, ImproperInputLength} THEN NilProof
            ELSE rcvd[CHOOSE v \in Indices : v # self]

\* Serialization never alters a proof: once the array is decoded, it has
\* an entry at every party index (BobRespondsW and BobRespondsGamma index
\* the decoded psi array with psiAlice[i], src/README.md line 148), the
\* prover's own entry is nil and the verifier's entry, unless it came
\* back nil, is exactly the proof that was sent.
DecodedEntryIsSent ==
  rcvd # None =>
    /\ rcvd # ImproperInputLength
    /\ DOMAIN rcvd = Indices
    /\ rcvd[self] = NilProof
    /\ Received # NilProof => FromParts(Received) = proof

\* Spec 8.2 over the wire: an honest proof that reaches the verifier as a
\* proof (not as a nil entry) verifies.
DeliveredHonestProofVerifies ==
  (verdict # None /\ origin = "honest" /\ Received # NilProof)
    => verdict = TRUE

\* Spec 8.2 under spec 4.4's zero rule, for the randomness the comment of
\* NewDecProof (lines 73-75) prescribes: r is drawn from Z*_N0, so
\* A = Enc(alpha, r) and w = r * rho^e mod N0 are never 0, and an honest
\* proof none of whose other sampled components (Gamma, z1, z2) is 0 is
\* delivered as a proof and verifies.  Line 76 samples r with
\* GetRandomPositiveInt(N0), over [0, N0).
HonestUnitRandomnessVerifies ==
  (verdict # None /\ origin = "honest"
     /\ proof.Gamma # 0 /\ proof.Z1 # 0 /\ proof.Z2 # 0)
    => verdict = TRUE
=============================================================================
