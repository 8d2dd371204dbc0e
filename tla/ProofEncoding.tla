---------------------------- MODULE ProofEncoding ----------------------------
(***************************************************************************)
(* The wire encoding of arrays of ZK proofs (src/crypto/zkproofs, the     *)
(* proof.go part of mulstar_proof_test.go, lines 107-192, and             *)
(* dec_proof.go lines 179-208): a proof is Parts big integers, each       *)
(* written with big.Int.Bytes; ProofArrayToBytes concatenates the parts   *)
(* of every proof, Parts empty slices for a nil proof, and                *)
(* ProofArrayFromBytes cuts the slices back into proofs, leaving nil any  *)
(* proof with an empty part.  A proof is modelled by its component values *)
(* (natural numbers, as every DecProof component is); the byte strings    *)
(* are real big-endian byte sequences.                                    *)
(*                                                                         *)
(* The state machine is one transfer: the sender encodes an array, the    *)
(* receiver decodes the slices it got.                                    *)
(***************************************************************************)
EXTENDS Integers, SequencesExt

CONSTANTS Parts,     \* Parts(): 7 for DecProof
          Values,    \* component values a proof may carry
          MaxLen,    \* longest proof array (one entry per party)
          NilProof,  \* a nil entry of the array
          None,      \* nothing sent or decoded yet
          ImproperInputLength  \* the error of ProofArrayFromBytes

ASSUME /\ Parts \in Nat \ {0}
       /\ Values \subseteq Nat
       /\ MaxLen \in Nat

Proofs == [1 .. Parts -> Values]
Entries == Proofs \cup {NilProof}
Arrays == SeqOf(Entries, MaxLen)

\* big.Int.Bytes: the absolute value as a minimal big-endian byte string;
\* zero is the empty string.
RECURSIVE BigBytes(_)
BigBytes(x) == IF x = 0 THEN <<>> ELSE BigBytes(x \div 256) \o <<x % 256>>

\* big.Int.SetBytes: a big-endian unsigned integer.
SetBytes(bs) == FoldLeft(LAMBDA acc, b : acc * 256 + b, 0, bs)

\* Lines 183-193, DecProof.Bytes: one byte string per component.
Bytes(proof) == [k \in 1 .. Parts |-> BigBytes(proof[k])]

\* common.NonEmptyMultiBytes (tss-lib): expectLen slices, none of them
\* empty.
NonEmptyMultiBytes(bzs, expectLen) ==
  /\ Len(bzs) # 0
  /\ Len(bzs) = expectLen
  /\ \A k \in 1 .. Len(bzs) : Len(bzs[k]) > 0

\* Lines 195-208, DecProof.ProofFromBytes: SetBytes of every part (its
\* error, for a missing part, is unreachable from ProofArrayFromBytes).
ProofFromBytes(bzs) == [k \in 1 .. Parts |-> SetBytes(bzs[k])]

\* dec_proof.go lines 174-176, DecProof.IsNil: only the pointer is looked
\* at, not the fields.
IsNil(proof) == proof = NilProof

\* Mutant of ProofArrayToBytes: a nil proof contributes a single empty
\* slice instead of Parts of them.
ProofArrayToBytesOneNilSlot(proofs) ==
  FlattenSeq([i \in 1 .. Len(proofs) |->
                IF IsNil(proofs[i]) THEN << <<>> >>
                ELSE Bytes(proofs[i])])

\* Lines 145-167: the parts of every proof in order; Parts empty slices
\* for a nil one; no slices for an empty array.
ProofArrayToBytes(proofs) ==
  FlattenSeq([i \in 1 .. Len(proofs) |->
                IF IsNil(proofs[i]) THEN [k \in 1 .. Parts |-> <<>>]
                ELSE Bytes(proofs[i])])

\* Lines 169-192: "Improper input length" unless the slices divide into
\* proofs; a proof whose slices are not all non-empty is left nil.
ProofArrayFromBytes(bzs) ==
  IF Len(bzs) % Parts # 0 THEN ImproperInputLength
  ELSE [p \in 1 .. Len(bzs) \div Parts |->
          LET slice == SubSeq(bzs, (p - 1) * Parts + 1, p * Parts)
          IN IF NonEmptyMultiBytes(slice, Len(slice))
             THEN ProofFromBytes(slice)
             ELSE NilProof]

-----------------------------------------------------------------------------
VARIABLES proofs,   \* the array the sender serializes
          wire,     \* the slices received
          decoded   \* what ProofArrayFromBytes returned

vars == <<proofs, wire, decoded>>

Init ==
  /\ proofs \in Arrays
  /\ wire = None
  /\ decoded = None

\* A message constructor serializes a proof array (e.g. psiPrime of
\* NewSignRound2Message2, src/README.md line 106).
Encode ==
  /\ wire = None
  /\ wire' = ProofArrayToBytes(proofs)
  /\ UNCHANGED <<proofs, decoded>>

\* The receiver's Unmarshal calls ProofArrayFromBytes.
Decode ==
  /\ wire # None
  /\ decoded = None
  /\ decoded' = ProofArrayFromBytes(wire)
  /\ UNCHANGED <<proofs, wire>>

Next == Encode \/ Decode

Spec == Init /\ [][Next]_vars /\ WF_vars(Next)

-----------------------------------------------------------------------------
\* Spec 8.3: ProofArrayFromBytes(ProofArrayToBytes(A)) = A for every array
\* A, its nil entries included: the receiver gets back exactly the proofs
\* (and the absent ones) the sender serialized.
RoundTrip == decoded # None => decoded = proofs
=============================================================================
